---------------------------- MODULE Spec2Model ----------------------------
(***************************************************************************)
(* A model of the TypeGen validator: the type registry, the validation     *)
(* rules over a module tree of declaration files, and cycle detection.     *)
(*                                                                         *)
(* Go strings are modelled as sequences of one-character strings, so that  *)
(* the regular expressions, the prefix/suffix tests and the splits of the  *)
(* code are computed the way the code computes them.                       *)
(***************************************************************************)
EXTENDS Integers, Sequences, FiniteSets, TLC

\* a nil pointer or interface value
Nil == [k |-> "Nil"]

(***************************************************************************)
(* Bounds of the model.                                                    *)
(***************************************************************************)
\* Nesting depth of the type expressions the inputs are drawn from.
MaxTypeDepth == 2
\* Largest number of declarations in one generated file.
MaxDecls == 2

(***************************************************************************)
(* Strings.                                                                *)
(***************************************************************************)
LowerSeq == <<"a","b","c","d","e","f","g","h","i","j","k","l","m",
              "n","o","p","q","r","s","t","u","v","w","x","y","z">>
UpperSeq == <<"A","B","C","D","E","F","G","H","I","J","K","L","M",
              "N","O","P","Q","R","S","T","U","V","W","X","Y","Z">>
Range(s) == {s[i] : i \in DOMAIN s}
Lower == Range(LowerSeq)
Upper == Range(UpperSeq)
Digit == {"0","1","2","3","4","5","6","7","8","9"}

IndexIn(seq, c) == CHOOSE i \in DOMAIN seq : seq[i] = c
\* unicode.ToLower / unicode.ToUpper on the characters of the model
ToLower(c) == IF c \in Upper THEN LowerSeq[IndexIn(UpperSeq, c)] ELSE c
ToUpper(c) == IF c \in Lower THEN UpperSeq[IndexIn(LowerSeq, c)] ELSE c
StrToLower(s) == [i \in DOMAIN s |-> ToLower(s[i])]
StrToUpper(s) == [i \in DOMAIN s |-> ToUpper(s[i])]

HasPrefixAt(s, i, p) ==
    /\ i + Len(p) - 1 <= Len(s)
    /\ \A k \in 1..Len(p) : s[i + k - 1] = p[k]
\* strings.HasSuffix
HasSuffix(s, suf) ==
    /\ Len(suf) <= Len(s)
    /\ \A k \in 1..Len(suf) : s[Len(s) - Len(suf) + k] = suf[k]

\* strings.Split(s, sep) for a non-empty separator: the pieces between the
\* non-overlapping occurrences of sep, found left to right.
RECURSIVE SplitFrom(_, _, _, _)
SplitFrom(s, sep, cur, i) ==
    IF i > Len(s) THEN <<cur>>
    ELSE IF HasPrefixAt(s, i, sep)
         THEN <<cur>> \o SplitFrom(s, sep, <<>>, i + Len(sep))
         ELSE SplitFrom(s, sep, Append(cur, s[i]), i + 1)
Split(s, sep) == SplitFrom(s, sep, <<>>, 1)

\* strings.Join
RECURSIVE Join(_, _)
Join(parts, sep) ==
    IF Len(parts) = 0 THEN <<>>
    ELSE IF Len(parts) = 1 THEN parts[1]
    ELSE parts[1] \o sep \o Join(Tail(parts), sep)

Dot == <<".">>
Slash == <<"/">>
ColonColon == <<":", ":">>
Arrow == <<" ", "-", ">", " ">>

(***************************************************************************)
(* Naming conventions.                                                     *)
(***************************************************************************)
\* snakeCaseRegex ^[a-z][a-z0-9_]*$
IsValidSnakeCase(s) ==
    /\ Len(s) >= 1
    /\ s[1] \in Lower
    /\ \A i \in 2..Len(s) : s[i] \in Lower \cup Digit \cup {"_"}
\* pascalCaseRegex ^[A-Z][a-zA-Z0-9]*$
IsValidPascalCase(s) ==
    /\ Len(s) >= 1
    /\ s[1] \in Upper
    /\ \A i \in 2..Len(s) : s[i] \in Lower \cup Upper \cup Digit
\* the mutant of IsValidConstantCase that accepts lower-case letters
IsValidConstantCaseOrMixed(s) ==
    /\ Len(s) >= 1
    /\ s[1] \in Upper
    /\ \A i \in 2..Len(s) : s[i] \in Lower \cup Upper \cup Digit
\* constantCaseRegex ^[A-Z][A-Z0-9_]*$
IsValidConstantCase(s) ==
    /\ Len(s) >= 1
    /\ s[1] \in Upper
    /\ \A i \in 2..Len(s) : s[i] \in Upper \cup Digit \cup {"_"}

RECURSIVE SnakeFrom(_, _)
SnakeFrom(s, i) ==
    IF i > Len(s) THEN <<>>
    ELSE (IF i > 1 /\ s[i] \in Upper THEN <<"_">> ELSE <<>>)
         \o <<ToLower(s[i])>> \o SnakeFrom(s, i + 1)
SuggestSnakeCase(s) == IF IsValidSnakeCase(s) THEN s ELSE SnakeFrom(s, 1)

RECURSIVE PascalParts(_)
PascalParts(parts) ==
    IF Len(parts) = 0 THEN <<>>
    ELSE LET part == parts[1] IN
         (IF Len(part) > 0
          THEN <<ToUpper(part[1])>> \o StrToLower(Tail(part))
          ELSE <<>>) \o PascalParts(Tail(parts))
SuggestPascalCase(s) ==
    IF IsValidPascalCase(s) THEN s ELSE PascalParts(Split(s, <<"_">>))

SuggestConstantCase(s) ==
    IF IsValidConstantCase(s) THEN s ELSE StrToUpper(SuggestSnakeCase(s))

IsValidModuleName(name) ==
    /\ name # <<>>
    /\ LET parts == Split(name, Dot) IN
       \A i \in DOMAIN parts : IsValidSnakeCase(parts[i])

SuggestModuleName(name) ==
    IF IsValidModuleName(name) THEN name
    ELSE LET parts == Split(name, Dot) IN
         Join([i \in DOMAIN parts |-> SuggestSnakeCase(parts[i])], Dot)

(***************************************************************************)
(* Primitive type names.                                                   *)
(***************************************************************************)
S_int8 == <<"i","n","t","8">>
S_int16 == <<"i","n","t","1","6">>
S_int32 == <<"i","n","t","3","2">>
S_int64 == <<"i","n","t","6","4">>
S_int == <<"i","n","t">>
S_bigint == <<"b","i","g","i","n","t">>
S_nat8 == <<"n","a","t","8">>
S_nat16 == <<"n","a","t","1","6">>
S_nat32 == <<"n","a","t","3","2">>
S_nat64 == <<"n","a","t","6","4">>
S_nat == <<"n","a","t">>
S_bignat == <<"b","i","g","n","a","t">>
S_float32 == <<"f","l","o","a","t","3","2">>
S_float64 == <<"f","l","o","a","t","6","4">>
S_decimal == <<"d","e","c","i","m","a","l">>
S_string == <<"s","t","r","i","n","g">>
S_bool == <<"b","o","o","l">>
S_json == <<"j","s","o","n">>
S_time == <<"t","i","m","e">>
S_date == <<"d","a","t","e">>
S_datetime == <<"d","a","t","e","t","i","m","e">>
S_timetz == <<"t","i","m","e","t","z">>
S_datetz == <<"d","a","t","e","t","z">>
S_datetimetz == <<"d","a","t","e","t","i","m","e","t","z">>
S_integer == <<"i","n","t","e","g","e","r">>

\* The primitive names the grammar's primitive_type rule produces.
GrammarPrimitives ==
    {S_int8, S_int16, S_int32, S_int64, S_int, S_bigint,
     S_nat8, S_nat16, S_nat32, S_nat64, S_nat, S_bignat,
     S_float32, S_float64, S_decimal, S_string, S_bool, S_json,
     S_time, S_date, S_datetime, S_timetz, S_datetz, S_datetimetz}

ValidPrimitiveTypes ==
    {S_int8, S_int16, S_int32, S_int64,
     S_nat8, S_nat16, S_nat32, S_nat64,
     S_float32, S_float64,
     S_string, S_bool,
     S_json,
     S_datetime, S_date, S_time}

ValidMapKeyTypes ==
    {S_string, S_int8, S_int16, S_int32, S_int64,
     S_nat8, S_nat16, S_nat32, S_nat64}

IsValidPrimitiveType(typeName) == typeName \in ValidPrimitiveTypes
\* A key check that lets bool through as well.
IsValidMapKeyTypeOrBool(typeName) == typeName \in ValidMapKeyTypes \cup {S_bool}
IsValidMapKeyType(typeName) == typeName \in ValidMapKeyTypes

(***************************************************************************)
(* AST nodes.  A type expression is one of five kinds of record.           *)
(***************************************************************************)
PrimitiveType(name) == [k |-> "Primitive", Name |-> name]
NamedType(name) == [k |-> "Named", Name |-> name]
ArrayType(elem) == [k |-> "Array", ElementType |-> elem]
MapType(key, val) == [k |-> "Map", KeyType |-> key, ValueType |-> val]
OptionalType(elem) == [k |-> "Optional", ElementType |-> elem]

Position(line, column) == [Line |-> line, Column |-> column]
FieldNode(name, type, optional, pos) ==
    [Name |-> name, Type |-> type, Optional |-> optional, Pos |-> pos]
EnumVariantNode(name, payload, pos) ==
    [Name |-> name, Payload |-> payload, Pos |-> pos]
StructNode(name, fields, pos) ==
    [kind |-> "struct", Name |-> name, Fields |-> fields, Pos |-> pos]
EnumNode(name, variants, pos) ==
    [kind |-> "enum", Name |-> name, Variants |-> variants, Pos |-> pos]
TypeAliasNode(name, type, pos) ==
    [kind |-> "alias", Name |-> name, Type |-> type, Pos |-> pos]
ConstantNode(name, value, pos) ==
    [kind |-> "constant", Name |-> name, Value |-> value, Pos |-> pos]
ImportNode(path, pos) == [Path |-> path, Pos |-> pos]
ProgramNode(imports, decls) == [Imports |-> imports, Declarations |-> decls]
\* A module: its files by name and its submodules by directory name.
Module(files, subs) == [Files |-> files, SubModules |-> subs]
EmptyMap == <<>>

(***************************************************************************)
(* Validation errors.  A message is the tuple of its format and arguments. *)
(***************************************************************************)
UndefinedTypeError == "undefined_type"
InvalidPrimitiveError == "invalid_primitive"
InvalidMapKeyError == "invalid_map_key"
NamingConventionError == "naming_convention"
DuplicateTypeError == "duplicate_type"
DuplicateFieldError == "duplicate_field"
DuplicateVariantError == "duplicate_variant"
InvalidImportError == "invalid_import"
InvalidOptionalError == "invalid_optional"
InvalidConstantError == "invalid_constant"
\* used by validateCircularDependencies; absent from the declared kinds
CircularDependencyError == "circular_dependency"

ValidationError(type, message, file, line, column, suggestion) ==
    [Type |-> type, Message |-> message, File |-> file,
     Line |-> line, Column |-> column, Suggestion |-> suggestion]
\* ValidationResult.AddError appends one error; the result is the sequence.
AddError(type, message, file, line, column, suggestion) ==
    <<ValidationError(type, message, file, line, column, suggestion)>>

(***************************************************************************)
(* Type registry.                                                          *)
(***************************************************************************)
qualifyName(name, file) == file \o ColonColon \o name

TypeInfo(name, declType, file, line, column) ==
    [Name |-> name, DeclType |-> declType, File |-> file,
     Line |-> line, Column |-> column, Dependencies |-> <<>>]

NewTypeRegistry == EmptyMap

\* r.types[qualifiedName] = &TypeInfo{...}: a registered key is overwritten
RegisterType(types, name, declType, file, line, column) ==
    (qualifyName(name, file) :> TypeInfo(name, declType, file, line, column))
        @@ types

AddDependency(types, fromType, toType, file) ==
    LET qualifiedFrom == qualifyName(fromType, file) IN
    IF qualifiedFrom \in DOMAIN types
    THEN [types EXCEPT ![qualifiedFrom].Dependencies = Append(@, toType)]
    ELSE types

\* A TypeExists that looks in the current file only.
TypeExistsInFile(types, name, currentFile) ==
    \/ IsValidPrimitiveType(name)
    \/ qualifyName(name, currentFile) \in DOMAIN types

\* TypeExists: primitive name, or currentFile::name, or any key ending ::name
TypeExists(types, name, currentFile) ==
    \/ IsValidPrimitiveType(name)
    \/ qualifyName(name, currentFile) \in DOMAIN types
    \/ \E qualName \in DOMAIN types : HasSuffix(qualName, ColonColon \o name)

\* A FindType that does not look at the current file first.
FindTypeAnyFile(types, name, currentFile) ==
    {types[qualName] : qualName \in
        {q \in DOMAIN types : HasSuffix(q, ColonColon \o name)}}

\* FindType: the records it can return (the cross-file branch returns the
\* first match of a map iteration, whose order is unspecified); the empty
\* set stands for (nil, false).
FindType(types, name, currentFile) ==
    IF qualifyName(name, currentFile) \in DOMAIN types
    THEN {types[qualifyName(name, currentFile)]}
    ELSE {types[qualName] : qualName \in
            {q \in DOMAIN types : HasSuffix(q, ColonColon \o name)}}

(***************************************************************************)
(* Building the registry (one walk of the module tree).                    *)
(***************************************************************************)
\* an extraction that takes the value of a map and leaves its key
RECURSIVE addTypeDependenciesOfValues(_, _, _, _)
addTypeDependenciesOfValues(types, fromType, typeNode, file) ==
    CASE typeNode.k = "Named" ->
            AddDependency(types, fromType, typeNode.Name, file)
      [] typeNode.k = "Array" ->
            addTypeDependenciesOfValues(types, fromType, typeNode.ElementType, file)
      [] typeNode.k = "Map" ->
            addTypeDependenciesOfValues(types, fromType, typeNode.ValueType, file)
      [] typeNode.k = "Optional" ->
            addTypeDependenciesOfValues(types, fromType, typeNode.ElementType, file)
      [] OTHER -> types

RECURSIVE addTypeDependencies(_, _, _, _)
addTypeDependencies(types, fromType, typeNode, file) ==
    CASE typeNode.k = "Named" ->
            AddDependency(types, fromType, typeNode.Name, file)
      [] typeNode.k = "Array" ->
            addTypeDependencies(types, fromType, typeNode.ElementType, file)
      [] typeNode.k = "Map" ->
            addTypeDependencies(
                addTypeDependencies(types, fromType, typeNode.KeyType, file),
                fromType, typeNode.ValueType, file)
      [] typeNode.k = "Optional" ->
            addTypeDependencies(types, fromType, typeNode.ElementType, file)
      [] OTHER -> types

RECURSIVE addFieldDependencies(_, _, _, _, _)
addFieldDependencies(types, name, fields, i, file) ==
    IF i > Len(fields) THEN types
    ELSE addFieldDependencies(
            addTypeDependencies(types, name, fields[i].Type, file),
            name, fields, i + 1, file)

RECURSIVE addVariantDependencies(_, _, _, _, _)
addVariantDependencies(types, name, variants, i, file) ==
    IF i > Len(variants) THEN types
    ELSE addVariantDependencies(
            IF variants[i].Payload # Nil
            THEN addTypeDependencies(types, name, variants[i].Payload, file)
            ELSE types,
            name, variants, i + 1, file)

\* the body of the loop over program.Declarations
registerDeclaration(types, d, fullPath) ==
    LET reg == RegisterType(types, d.Name, d.kind, fullPath,
                            d.Pos.Line, d.Pos.Column) IN
    CASE d.kind = "struct" ->
            addFieldDependencies(reg, d.Name, d.Fields, 1, fullPath)
      [] d.kind = "enum" ->
            addVariantDependencies(reg, d.Name, d.Variants, 1, fullPath)
      [] d.kind = "alias" ->
            addTypeDependencies(reg, d.Name, d.Type, fullPath)
      [] OTHER -> reg

RECURSIVE registerDeclarations(_, _, _, _)
registerDeclarations(types, decls, i, fullPath) ==
    IF i > Len(decls) THEN types
    ELSE registerDeclarations(registerDeclaration(types, decls[i], fullPath),
                              decls, i + 1, fullPath)

\* basePath joined with a file or directory name
JoinPath(basePath, name) ==
    IF basePath # <<>> THEN basePath \o Slash \o name ELSE name

\* Every file writes only keys that begin with its own path, so the order in
\* which the two maps are walked does not change the registry: the walk
\* takes the keys in an arbitrary fixed order.
RECURSIVE processFilesForRegistry(_, _, _, _)
RECURSIVE processModuleForRegistry(_, _, _)
RECURSIVE processSubModulesForRegistry(_, _, _, _)
processFilesForRegistry(module, names, basePath, types) ==
    IF names = {} THEN types
    ELSE LET filename == CHOOSE n \in names : TRUE
             fullPath == JoinPath(basePath, filename) IN
         processFilesForRegistry(module, names \ {filename}, basePath,
            registerDeclarations(types, module.Files[filename].Declarations,
                                 1, fullPath))
processSubModulesForRegistry(module, names, basePath, types) ==
    IF names = {} THEN types
    ELSE LET subModuleName == CHOOSE n \in names : TRUE IN
         processSubModulesForRegistry(module, names \ {subModuleName}, basePath,
            processModuleForRegistry(module.SubModules[subModuleName],
                                     JoinPath(basePath, subModuleName), types))
processModuleForRegistry(module, basePath, types) ==
    processSubModulesForRegistry(module, DOMAIN module.SubModules, basePath,
        processFilesForRegistry(module, DOMAIN module.Files, basePath, types))

buildTypeRegistry(module) ==
    processModuleForRegistry(module, <<>>, NewTypeRegistry)

(***************************************************************************)
(* The validator.  Every validateX returns the errors it appends to        *)
(* v.result, in the order it appends them.                                 *)
(***************************************************************************)
Use(s) == <<"use", s>>
Text(s) == <<s>>

validatePrimitiveType(primitive, filename, line, column) ==
    IF ~IsValidPrimitiveType(primitive.Name)
    THEN AddError(InvalidPrimitiveError,
                  <<"is not a valid primitive type", primitive.Name>>,
                  filename, line, column, Text("use one of the primitive types"))
    ELSE <<>>

validateNamedType(types, named, filename, line, column) ==
    IF ~TypeExists(types, named.Name, filename)
    THEN AddError(UndefinedTypeError, <<"undefined type", named.Name>>,
                  filename, line, column,
                  Text("define the type or check the spelling"))
    ELSE <<>>

RECURSIVE validateType(_, _, _, _, _)
RECURSIVE validateMapType(_, _, _, _, _)
RECURSIVE validateOptionalType(_, _, _, _, _)

validateMapType(types, mapType, filename, line, column) ==
    (IF mapType.KeyType.k = "Primitive"
     THEN IF ~IsValidMapKeyType(mapType.KeyType.Name)
          THEN AddError(InvalidMapKeyError,
                        <<"map key type is not valid", mapType.KeyType.Name>>,
                        filename, line, column,
                        Text("use string or integer types for map keys"))
          ELSE <<>>
     ELSE AddError(InvalidMapKeyError, <<"map key must be a primitive type">>,
                   filename, line, column,
                   Text("use string or integer types for map keys")))
    \o validateType(types, mapType.KeyType, filename, line, column)
    \o validateType(types, mapType.ValueType, filename, line, column)

validateOptionalType(types, optional, filename, line, column) ==
    (IF optional.ElementType.k = "Optional"
     THEN AddError(InvalidOptionalError,
                   <<"double-wrapped optional types are not allowed">>,
                   filename, line, column,
                   Text("use single optional marker ?Type"))
     ELSE <<>>)
    \o validateType(types, optional.ElementType, filename, line, column)

validateType(types, typeNode, filename, line, column) ==
    CASE typeNode.k = "Primitive" ->
            validatePrimitiveType(typeNode, filename, line, column)
      [] typeNode.k = "Named" ->
            validateNamedType(types, typeNode, filename, line, column)
      [] typeNode.k = "Array" ->
            validateType(types, typeNode.ElementType, filename, line, column)
      [] typeNode.k = "Map" ->
            validateMapType(types, typeNode, filename, line, column)
      [] typeNode.k = "Optional" ->
            validateOptionalType(types, typeNode, filename, line, column)

\* The errors of one field; fieldNames maps the names seen so far in the
\* struct to the field that first used them.
validateField(types, field, filename, fieldNames) ==
    (IF ~IsValidSnakeCase(field.Name)
     THEN AddError(NamingConventionError,
                   <<"field name should follow snake_case convention",
                     field.Name>>,
                   filename, field.Pos.Line, field.Pos.Column,
                   Use(SuggestSnakeCase(field.Name)))
     ELSE <<>>)
    \o (IF field.Name \in DOMAIN fieldNames
        THEN AddError(DuplicateFieldError,
                      <<"duplicate field (first declared at line)", field.Name,
                        fieldNames[field.Name].Pos.Line>>,
                      filename, field.Pos.Line, field.Pos.Column,
                      Text("rename one of the fields"))
        ELSE <<>>)
    \o validateType(types, field.Type, filename,
                    field.Pos.Line, field.Pos.Column)

\* A map of seen names that records the latest use instead of the first.
RememberLatest(seen, node) == (node.Name :> node) @@ seen

\* the map of seen names after an item: a first use is recorded
Remember(seen, node) ==
    IF node.Name \in DOMAIN seen THEN seen ELSE (node.Name :> node) @@ seen

RECURSIVE validateFields(_, _, _, _, _)
validateFields(types, fields, i, filename, fieldNames) ==
    IF i > Len(fields) THEN <<>>
    ELSE validateField(types, fields[i], filename, fieldNames)
         \o validateFields(types, fields, i + 1, filename,
                           Remember(fieldNames, fields[i]))

validateStruct(types, s, filename) ==
    (IF ~IsValidPascalCase(s.Name)
     THEN AddError(NamingConventionError,
                   <<"struct name should follow PascalCase convention", s.Name>>,
                   filename, s.Pos.Line, s.Pos.Column,
                   Use(SuggestPascalCase(s.Name)))
     ELSE <<>>)
    \o validateFields(types, s.Fields, 1, filename, EmptyMap)

validateEnumVariant(types, variant, filename, variantNames) ==
    (IF ~IsValidSnakeCase(variant.Name)
     THEN AddError(NamingConventionError,
                   <<"enum variant should follow snake_case convention",
                     variant.Name>>,
                   filename, variant.Pos.Line, variant.Pos.Column,
                   Use(SuggestSnakeCase(variant.Name)))
     ELSE <<>>)
    \o (IF variant.Name \in DOMAIN variantNames
        THEN AddError(DuplicateVariantError,
                      <<"duplicate variant (first declared at line)",
                        variant.Name, variantNames[variant.Name].Pos.Line>>,
                      filename, variant.Pos.Line, variant.Pos.Column,
                      Text("rename one of the variants"))
        ELSE <<>>)
    \o (IF variant.Payload # Nil
        THEN validateType(types, variant.Payload, filename,
                          variant.Pos.Line, variant.Pos.Column)
        ELSE <<>>)

RECURSIVE validateVariants(_, _, _, _, _)
validateVariants(types, variants, i, filename, variantNames) ==
    IF i > Len(variants) THEN <<>>
    ELSE validateEnumVariant(types, variants[i], filename, variantNames)
         \o validateVariants(types, variants, i + 1, filename,
                             Remember(variantNames, variants[i]))

validateEnum(types, e, filename) ==
    (IF ~IsValidPascalCase(e.Name)
     THEN AddError(NamingConventionError,
                   <<"enum name should follow PascalCase convention", e.Name>>,
                   filename, e.Pos.Line, e.Pos.Column,
                   Use(SuggestPascalCase(e.Name)))
     ELSE <<>>)
    \o validateVariants(types, e.Variants, 1, filename, EmptyMap)

validateTypeAlias(types, alias, filename) ==
    (IF ~IsValidPascalCase(alias.Name)
     THEN AddError(NamingConventionError,
                   <<"type alias should follow PascalCase convention",
                     alias.Name>>,
                   filename, alias.Pos.Line, alias.Pos.Column,
                   Use(SuggestPascalCase(alias.Name)))
     ELSE <<>>)
    \o validateType(types, alias.Type, filename,
                    alias.Pos.Line, alias.Pos.Column)

validateConstant(constant, filename) ==
    (IF ~IsValidConstantCase(constant.Name)
     THEN AddError(NamingConventionError,
                   <<"constant name should follow CONSTANT_CASE convention",
                     constant.Name>>,
                   filename, constant.Pos.Line, constant.Pos.Column,
                   Use(SuggestConstantCase(constant.Name)))
     ELSE <<>>)
    \o (IF constant.Value = Nil
        THEN AddError(InvalidConstantError,
                      <<"constant must have a value", constant.Name>>,
                      filename, constant.Pos.Line, constant.Pos.Column,
                      Text("provide a value for the constant"))
        ELSE <<>>)

declTypeOf(decl) == IF decl.kind = "alias" THEN "type alias" ELSE decl.kind

\* A check of a declaration that takes a name for used only when the
\* earlier declaration is of the same kind.
validateDeclarationSameKind(types, decl, filename, declNames) ==
    (CASE decl.kind = "struct" -> validateStruct(types, decl, filename)
       [] decl.kind = "enum" -> validateEnum(types, decl, filename)
       [] decl.kind = "alias" -> validateTypeAlias(types, decl, filename)
       [] decl.kind = "constant" -> validateConstant(decl, filename))
    \o (IF decl.Name \in DOMAIN declNames
           /\ declNames[decl.Name].kind = decl.kind
        THEN AddError(DuplicateTypeError,
                      <<"duplicate (first declared at line)", declTypeOf(decl),
                        decl.Name, declNames[decl.Name].Pos.Line>>,
                      filename, decl.Pos.Line, decl.Pos.Column,
                      Text("rename one of the declarations"))
        ELSE <<>>)

validateDeclaration(types, decl, filename, declNames) ==
    (CASE decl.kind = "struct" -> validateStruct(types, decl, filename)
       [] decl.kind = "enum" -> validateEnum(types, decl, filename)
       [] decl.kind = "alias" -> validateTypeAlias(types, decl, filename)
       [] decl.kind = "constant" -> validateConstant(decl, filename))
    \o (IF decl.Name \in DOMAIN declNames
        THEN AddError(DuplicateTypeError,
                      <<"duplicate (first declared at line)", declTypeOf(decl),
                        decl.Name, declNames[decl.Name].Pos.Line>>,
                      filename, decl.Pos.Line, decl.Pos.Column,
                      Text("rename one of the declarations"))
        ELSE <<>>)

validateImport(imp, filename) ==
    IF ~IsValidModuleName(imp.Path)
    THEN AddError(InvalidImportError,
                  <<"import path should follow snake_case convention", imp.Path>>,
                  filename, imp.Pos.Line, imp.Pos.Column,
                  Use(SuggestModuleName(imp.Path)))
    ELSE <<>>

RECURSIVE validateImports(_, _, _)
validateImports(imports, i, filename) ==
    IF i > Len(imports) THEN <<>>
    ELSE validateImport(imports[i], filename)
         \o validateImports(imports, i + 1, filename)

RECURSIVE validateDeclarations(_, _, _, _, _)
validateDeclarations(types, decls, i, filename, declNames) ==
    IF i > Len(decls) THEN <<>>
    ELSE validateDeclaration(types, decls[i], filename, declNames)
         \o validateDeclarations(types, decls, i + 1, filename,
                                 Remember(declNames, decls[i]))

validateProgram(types, program, filename) ==
    validateImports(program.Imports, 1, filename)
    \o validateDeclarations(types, program.Declarations, 1, filename, EmptyMap)

(***************************************************************************)
(* Map iteration.  Go ranges over a map in an unspecified order, so a loop *)
(* over a map may take its keys in any order.                              *)
(***************************************************************************)
RECURSIVE Orders(_)
Orders(S) ==
    IF S = {} THEN {<<>>}
    ELSE UNION {{<<x>> \o p : p \in Orders(S \ {x})} : x \in S}

\* all concatenations that take one sequence from each set of choices
RECURSIVE Concats(_)
Concats(choices) ==
    IF Len(choices) = 0 THEN {<<>>}
    ELSE {h \o t : h \in choices[1], t \in Concats(Tail(choices))}

(***************************************************************************)
(* Cycle detection over the registry.                                      *)
(***************************************************************************)
\* a search for the start of the cycle that takes the head of the path when
\* the dependency is not on the path
cycleStartOrHead(path, qualifiedDep) ==
    IF \E i \in DOMAIN path : path[i] = qualifiedDep
    THEN CHOOSE i \in DOMAIN path :
            /\ path[i] = qualifiedDep
            /\ \A j \in 1..(i - 1) : path[j] # qualifiedDep
    ELSE 1
\* for i, p := range path { if p == qualifiedDep { cycleStart = i; break } }
cycleStartOf(path, qualifiedDep) ==
    IF \E i \in DOMAIN path : path[i] = qualifiedDep
    THEN CHOOSE i \in DOMAIN path :
            /\ path[i] = qualifiedDep
            /\ \A j \in 1..(i - 1) : path[j] # qualifiedDep
    ELSE -1

\* detectCycle returns the cycle (the empty sequence for nil) and leaves its
\* marks in the two maps it shares with its caller.
RECURSIVE detectCycle(_, _, _, _, _)
RECURSIVE detectCycleDeps(_, _, _, _, _, _)
detectCycleDeps(types, typeName, i, visited, recStack, path) ==
    LET typeInfo == types[typeName] IN
    IF i > Len(typeInfo.Dependencies)
    THEN [cycle |-> <<>>, visited |-> visited,
          recStack |-> recStack \ {typeName}]
    ELSE LET qualifiedDep ==
                 qualifyName(typeInfo.Dependencies[i], typeInfo.File) IN
         IF qualifiedDep \notin visited
         THEN LET r == detectCycle(types, qualifiedDep, visited, recStack, path)
              IN IF r.cycle # <<>> THEN r
                 ELSE detectCycleDeps(types, typeName, i + 1,
                                      r.visited, r.recStack, path)
         ELSE IF qualifiedDep \in recStack
                 /\ cycleStartOf(path, qualifiedDep) >= 1
         THEN [cycle |-> Append(SubSeq(path, cycleStartOf(path, qualifiedDep),
                                       Len(path)), qualifiedDep),
               visited |-> visited, recStack |-> recStack]
         ELSE detectCycleDeps(types, typeName, i + 1, visited, recStack, path)

detectCycle(types, typeName, visited, recStack, path) ==
    IF typeName \in DOMAIN types
    THEN detectCycleDeps(types, typeName, 1, visited \cup {typeName},
                         recStack \cup {typeName}, Append(path, typeName))
    ELSE [cycle |-> <<>>, visited |-> visited \cup {typeName},
          recStack |-> recStack \ {typeName}]

\* the loop of ValidateCircularDependencies over the keys taken in `order`
RECURSIVE cyclesFrom(_, _, _, _, _)
cyclesFrom(types, order, i, visited, recStack) ==
    IF i > Len(order) THEN <<>>
    ELSE IF order[i] \notin visited
         THEN LET r == detectCycle(types, order[i], visited, recStack, <<>>) IN
              (IF r.cycle # <<>> THEN <<Join(r.cycle, Arrow)>> ELSE <<>>)
              \o cyclesFrom(types, order, i + 1, r.visited, r.recStack)
         ELSE cyclesFrom(types, order, i + 1, visited, recStack)

\* the lists of cycles ValidateCircularDependencies can return
ValidateCircularDependencies(types) ==
    {cyclesFrom(types, order, 1, {}, {}) : order \in Orders(DOMAIN types)}

RECURSIVE validateCircularDependencies(_, _)
validateCircularDependencies(cycles, i) ==
    IF i > Len(cycles) THEN <<>>
    ELSE LET firstType == Split(cycles[i], Arrow)[1]
             parts == Split(firstType, ColonColon) IN
         (IF Len(parts) = 2
          THEN AddError(CircularDependencyError,
                        <<"circular dependency detected", cycles[i]>>,
                        parts[1], 0, 0,
                        Text("restructure types to eliminate circular references"))
          ELSE <<>>)
         \o validateCircularDependencies(cycles, i + 1)

(***************************************************************************)
(* The walk of the module tree: the error sequences it can append.         *)
(***************************************************************************)
validateSubModuleName(subModuleName, basePath) ==
    IF ~IsValidSnakeCase(subModuleName)
    THEN AddError(NamingConventionError,
                  <<"module name should follow snake_case convention",
                    subModuleName>>,
                  basePath, 0, 0, Use(SuggestSnakeCase(subModuleName)))
    ELSE <<>>

\* A walk that gives up on a submodule whose directory is badly named.
RECURSIVE validateModuleStopping(_, _, _)
validateModuleStopping(types, m, basePath) ==
    LET fileRuns ==
            UNION {Concats([i \in 1..Len(p) |->
                        {validateProgram(types, m.Files[p[i]],
                                         JoinPath(basePath, p[i]))}])
                   : p \in Orders(DOMAIN m.Files)}
        subRuns ==
            UNION {Concats([i \in 1..Len(p) |->
                        IF validateSubModuleName(p[i], basePath) # <<>>
                        THEN {validateSubModuleName(p[i], basePath)}
                        ELSE validateModuleStopping(types, m.SubModules[p[i]],
                                                    JoinPath(basePath, p[i]))])
                   : p \in Orders(DOMAIN m.SubModules)}
    IN {f \o s : f \in fileRuns, s \in subRuns}

RECURSIVE validateModule(_, _, _)
validateModule(types, m, basePath) ==
    LET fileRuns ==
            UNION {Concats([i \in 1..Len(p) |->
                        {validateProgram(types, m.Files[p[i]],
                                         JoinPath(basePath, p[i]))}])
                   : p \in Orders(DOMAIN m.Files)}
        subRuns ==
            UNION {Concats([i \in 1..Len(p) |->
                        {validateSubModuleName(p[i], basePath) \o r :
                           r \in validateModule(types, m.SubModules[p[i]],
                                                JoinPath(basePath, p[i]))}])
                   : p \in Orders(DOMAIN m.SubModules)}
    IN {f \o s : f \in fileRuns, s \in subRuns}

\* The results Validate can return for a module: the registry it builds and
\* the errors, for every order the maps can be walked in.
ValidateRuns(m) ==
    LET types == buildTypeRegistry(m) IN
    {[registry |-> types,
      errors |-> walk \o validateCircularDependencies(cycles, 1)]
       : walk \in validateModule(types, m, <<>>),
         cycles \in ValidateCircularDependencies(types)}

(***************************************************************************)
(* The inputs: module trees drawn from bounded sets.                       *)
(***************************************************************************)
\* Largest number of fields of a generated struct (variants of an enum).
MaxMembers == 3

F_a == <<"a", ".", "t", "g">>
F_b == <<"b", ".", "t", "g">>
F_c == <<"c", ".", "t", "g">>
N_A == <<"A">>
N_B == <<"B">>
N_C == <<"C">>
N_Missing == <<"M">>
N_x == <<"x">>
N_y == <<"y">>
N_sub == <<"s">>

NoPos == Position(0, 0)
IntConstant(v) == [k |-> "Int", Value |-> v]

\* Source positions: declaration i of a file sits on line 10 * i, its j-th
\* member on line 10 * i + j.
PlaceMembers(members, i) ==
    [j \in DOMAIN members |->
        [members[j] EXCEPT !.Pos = Position(10 * i + j, 3)]]
PlaceDecl(d, i) ==
    LET p == [d EXCEPT !.Pos = Position(10 * i, 1)] IN
    CASE d.kind = "struct" -> [p EXCEPT !.Fields = PlaceMembers(@, i)]
      [] d.kind = "enum" -> [p EXCEPT !.Variants = PlaceMembers(@, i)]
      [] OTHER -> p
PlaceImports(paths) ==
    [i \in DOMAIN paths |-> ImportNode(paths[i], Position(i, 1))]
Program(paths, decls) ==
    ProgramNode(PlaceImports(paths),
                [i \in DOMAIN decls |-> PlaceDecl(decls[i], i)])

\* sequences over S of length at most n
RECURSIVE SeqsUpTo(_, _)
SeqsUpTo(S, n) ==
    IF n = 0 THEN {<<>>}
    ELSE LET shorter == SeqsUpTo(S, n - 1) IN
         shorter \cup {Append(q, e) : q \in {r \in shorter : Len(r) = n - 1},
                                      e \in S}

\* Type expressions up to a nesting depth.
LeafTypes == {PrimitiveType(S_string), NamedType(N_A), NamedType(N_Missing)}
KeyTypes == {PrimitiveType(S_string), PrimitiveType(S_bool), NamedType(N_A)}
RECURSIVE TypePool(_)
TypePool(depth) ==
    IF depth = 0 THEN LeafTypes
    ELSE LET inner == TypePool(depth - 1) IN
         LeafTypes
         \cup {ArrayType(t) : t \in inner}
         \cup {OptionalType(t) : t \in inner}
         \cup {MapType(key, t) : key \in KeyTypes, t \in inner}
\* every primitive name, as a type and as a map key
PrimitivePool ==
    LET names == GrammarPrimitives \cup {S_integer} IN
    {PrimitiveType(n) : n \in names}
    \cup {MapType(PrimitiveType(n), PrimitiveType(S_string)) : n \in names}
AllTypes == TypePool(MaxTypeDepth) \cup PrimitivePool

EmptyStructB == StructNode(N_B, <<>>, NoPos)
\* the places a type expression can stand in
DeclsWithType(t) ==
    {StructNode(N_A, <<FieldNode(N_x, t, FALSE, NoPos)>>, NoPos),
     StructNode(N_A, <<FieldNode(N_x, t, TRUE, NoPos)>>, NoPos),
     EnumNode(N_A, <<EnumVariantNode(N_x, t, NoPos)>>, NoPos),
     TypeAliasNode(N_A, t, NoPos)}

TwoFiles(pa, pb) == Module((F_a :> pa) @@ (F_b :> pb), EmptyMap)

\* one declaration carrying one type expression, and a second file
TypeModules ==
    {TwoFiles(Program(<<>>, <<d>>), Program(<<>>, <<EmptyStructB>>))
       : d \in UNION {DeclsWithType(t) : t \in AllTypes}}

\* declarations of every kind, well and badly named, to be put in sequence
DeclPool ==
    {StructNode(N_A, <<FieldNode(N_x, PrimitiveType(S_int8), FALSE, NoPos)>>, NoPos),
     EnumNode(N_A, <<EnumVariantNode(N_x, Nil, NoPos)>>, NoPos),
     TypeAliasNode(N_A, PrimitiveType(S_string), NoPos),
     ConstantNode(N_A, IntConstant(1), NoPos),
     ConstantNode(N_B, Nil, NoPos),
     StructNode(N_B, <<FieldNode(<<"X", "y">>, NamedType(N_Missing), FALSE, NoPos)>>, NoPos),
     StructNode(<<"a", "_", "b">>, <<>>, NoPos),
     EnumNode(<<"a", "_", "b">>, <<EnumVariantNode(<<"X">>, PrimitiveType(S_integer), NoPos)>>, NoPos)}
ImportPool == {<<>>, <<<<"b">>>>, <<<<"A", ".", "b">>, <<"z", "z">>>>}
DeclModules ==
    {TwoFiles(Program(imps, decls), Program(<<>>, <<EmptyStructB>>))
       : imps \in ImportPool, decls \in SeqsUpTo(DeclPool, MaxDecls)}

\* structs and enums whose members repeat names
MemberNames == {N_x, N_y}
MemberModules ==
    LET other == StructNode(N_B, <<FieldNode(N_x, PrimitiveType(S_bool), FALSE, NoPos)>>, NoPos)
        otherE == EnumNode(N_C, <<EnumVariantNode(N_x, Nil, NoPos)>>, NoPos) IN
    {TwoFiles(Program(<<>>, <<d, other, otherE>>), Program(<<>>, <<>>))
       : d \in {StructNode(N_A, [i \in DOMAIN names |->
                        FieldNode(names[i], PrimitiveType(S_string), FALSE, NoPos)],
                    NoPos) : names \in SeqsUpTo(MemberNames, MaxMembers)}
          \cup {EnumNode(N_A, [i \in DOMAIN names |->
                        EnumVariantNode(names[i], Nil, NoPos)],
                    NoPos) : names \in SeqsUpTo(MemberNames, MaxMembers)}}

\* three declarations that refer to one another, in one file or in several,
\* the third one in a submodule
RefNames == {N_A, N_B, N_C, N_Missing, S_string, S_timetz}
RefDecl(kind, name, ref) ==
    IF kind = "struct"
    THEN StructNode(name, <<FieldNode(N_x, ref, FALSE, NoPos)>>, NoPos)
    ELSE EnumNode(name, <<EnumVariantNode(N_x, ref, NoPos)>>, NoPos)
RefModules ==
    {Module(IF together
            THEN F_a :> Program(imps, <<RefDecl("struct", N_A, NamedType(ra)),
                                        RefDecl(kb, N_B, tb)>>)
            ELSE (F_a :> Program(imps, <<RefDecl("struct", N_A, NamedType(ra))>>))
                 @@ (F_b :> Program(<<>>, <<RefDecl(kb, N_B, tb)>>)),
            N_sub :> Module(F_c :> Program(<<>>,
                                <<RefDecl("struct", N_C, NamedType(N_A))>>),
                            EmptyMap))
       : together \in BOOLEAN, imps \in {<<>>, <<<<"b">>>>},
         ra \in RefNames, kb \in {"struct", "enum"},
         tb \in {NamedType(rb) : rb \in RefNames}
                \cup {ArrayType(NamedType(N_A))}}

\* submodules inside submodules, with well and badly named directories
NestedModules ==
    {Module(F_a :> Program(<<>>, <<RefDecl("struct", N_A, NamedType(N_C))>>),
            s1 :> Module(F_b :> Program(<<>>, <<d>>),
                         s2 :> Module(F_c :> Program(<<>>,
                                         <<RefDecl("struct", N_C, NamedType(N_B))>>),
                                      EmptyMap)))
       : s1 \in {N_sub, <<"S", "u", "b">>}, s2 \in {N_sub, <<"m", "y", "D", "i", "r">>},
         d \in {EmptyStructB,
                StructNode(<<"b">>, <<FieldNode(N_x, NamedType(N_Missing), FALSE, NoPos)>>, NoPos)}}

\* names in every style, given to declarations of every kind, to their
\* members and to a submodule directory
N_user_info == <<"u", "s", "e", "r", "_", "i", "n", "f", "o">>
N_UserInfo == <<"U", "s", "e", "r", "I", "n", "f", "o">>
N_UserName == <<"U", "s", "e", "r", "N", "a", "m", "e">>
N_user_name == <<"u", "s", "e", "r", "_", "n", "a", "m", "e">>
N_userName == <<"u", "s", "e", "r", "N", "a", "m", "e">>
N_USER_NAME == <<"U", "S", "E", "R", "_", "N", "A", "M", "E">>
StyledNames == {N_user_info, N_UserName, N_userName, N_USER_NAME, N_A, N_x}
NamingModules ==
    {Module(F_a :> Program(<<>>,
                <<StructNode(dn, <<FieldNode(mn, PrimitiveType(S_string), FALSE, NoPos)>>, NoPos),
                  EnumNode(dn, <<EnumVariantNode(mn, Nil, NoPos)>>, NoPos),
                  TypeAliasNode(dn, PrimitiveType(S_string), NoPos),
                  ConstantNode(dn, IntConstant(1), NoPos)>>),
            mn :> Module(F_b :> Program(<<>>, <<EmptyStructB>>), EmptyMap))
       : dn \in StyledNames, mn \in StyledNames}

Modules ==
    TypeModules \cup DeclModules \cup MemberModules \cup RefModules
    \cup NestedModules \cup NamingModules

\* the modules validated between two validations of the same module
OtherModules ==
    {TwoFiles(Program(<<>>, <<EmptyStructB>>), Program(<<>>, <<>>)),
     TwoFiles(Program(<<>>, <<RefDecl("struct", N_A, NamedType(N_A)),
                              ConstantNode(<<"a">>, Nil, NoPos)>>),
              Program(<<>>, <<>>))}

(***************************************************************************)
(* The parser's view of the disk.  A directory is the list os.ReadDir      *)
(* returns (sorted by name); a source file is what grammar.Parse makes of  *)
(* its text: the lexer's error count, the parser's status and the node the *)
(* lexer holds, which after an error is whatever part of the tree was      *)
(* built.                                                                  *)
(***************************************************************************)
Source(errors, status, node) ==
    [k |-> "Source", Errors |-> errors, Status |-> status, Node |-> node]
FileEntry(name, readable, source) ==
    [Name |-> name, IsDir |-> FALSE, Readable |-> readable, Source |-> source]
DirEntry(name, readable, entries) ==
    [Name |-> name, IsDir |-> TRUE, Readable |-> readable, Entries |-> entries]

Ok(value) == [value |-> value, err |-> Nil]
\* a Go error, and a (value, error) pair returned with one
Error(text) == [k |-> "error", msg |-> text]
Err(text) == [value |-> Nil, err |-> Error(text)]

\* Parse: the result of grammar.Parse turned into (program, error)
Parse(source) ==
    IF source.Errors > 0 THEN Err("parse errors occurred")
    ELSE IF source.Status # 0 THEN Err("parsing failed")
    ELSE IF source.Node = Nil THEN Err("no AST produced")
    ELSE Ok(source.Node)

\* ParseFile: os.Open, then Parse
ParseFile(entry) ==
    IF ~entry.Readable THEN Err("failed to open file") ELSE Parse(entry.Source)

DotTg == <<".", "t", "g">>
SkipDirs ==
    {<<".", "g", "i", "t">>, <<".", "s", "v", "n">>, <<".", "h", "g">>,
     <<"n", "o", "d", "e", "_", "m", "o", "d", "u", "l", "e", "s">>,
     <<"v", "e", "n", "d", "o", "r">>,
     <<".", "v", "s", "c", "o", "d", "e">>, <<".", "i", "d", "e", "a">>,
     <<"t", "a", "r", "g", "e", "t">>, <<"b", "u", "i", "l", "d">>,
     <<"d", "i", "s", "t">>,
     <<"_", "_", "p", "y", "c", "a", "c", "h", "e", "_", "_">>,
     <<".", "p", "y", "t", "e", "s", "t", "_", "c", "a", "c", "h", "e">>}
shouldSkipDirectory(name) ==
    name \in SkipDirs \/ HasPrefixAt(name, 1, Dot)

\* parseModuleRecursive: the loop over the entries from entry i on, with the
\* files and submodules collected so far; the first failure ends the walk
RECURSIVE parseEntries(_, _, _, _)
parseEntries(entries, i, files, subModules) ==
    IF i > Len(entries) THEN Ok(Module(files, subModules))
    ELSE LET entry == entries[i] IN
         IF entry.IsDir
         THEN IF shouldSkipDirectory(entry.Name)
              THEN parseEntries(entries, i + 1, files, subModules)
              ELSE IF ~entry.Readable THEN Err("failed to parse submodule")
              ELSE LET sub == parseEntries(entry.Entries, 1, EmptyMap, EmptyMap) IN
                   IF sub.err # Nil THEN Err("failed to parse submodule")
                   ELSE IF DOMAIN sub.value.Files # {} \/ DOMAIN sub.value.SubModules # {}
                   THEN parseEntries(entries, i + 1, files,
                                     (entry.Name :> sub.value) @@ subModules)
                   ELSE parseEntries(entries, i + 1, files, subModules)
         ELSE IF HasSuffix(entry.Name, DotTg)
         THEN LET parsed == ParseFile(entry) IN
              IF parsed.err # Nil THEN Err("failed to parse")
              ELSE parseEntries(entries, i + 1,
                                (entry.Name :> parsed.value) @@ files, subModules)
         ELSE parseEntries(entries, i + 1, files, subModules)

parseModuleRecursive(dir) ==
    IF dir = Nil \/ ~dir.IsDir \/ ~dir.Readable
    THEN Err("failed to read module directory")
    ELSE parseEntries(dir.Entries, 1, EmptyMap, EmptyMap)

ParseModuleToAST(dir) == parseModuleRecursive(dir)

(***************************************************************************)
(* The generator registry and the build configuration.                     *)
(***************************************************************************)
\* A constructor func() Generator, and the generator it builds; shouldErr
\* says whether Generate of that generator returns an error.
Constructor(id, shouldErr) == [k |-> "constructor", id |-> id, shouldErr |-> shouldErr]
Construct(constructor) ==
    [k |-> "generator", builtBy |-> constructor.id,
     shouldErr |-> constructor.shouldErr, config |-> EmptyMap]
SetConfig(generator, config) == [generator EXCEPT !.config = config]

NewRegistry == EmptyMap
\* the mutant of Register that keeps the constructor a name already has
RegisterOnce(gens, name, constructor) == gens @@ (name :> constructor)

\* Registry.Register: r.generators[name] = constructor
Register(gens, name, constructor) == (name :> constructor) @@ gens
\* Registry.Get
Get(gens, name) ==
    IF name \notin DOMAIN gens THEN Err("generator not found")
    ELSE Ok(Construct(gens[name]))

\* sort.Strings: ascending byte order
Bytes ==
    <<".", "/">> \o <<"0", "1", "2", "3", "4", "5", "6", "7", "8", "9">>
    \o UpperSeq \o <<"_">> \o LowerSeq
RECURSIVE StringLess(_, _)
StringLess(a, b) ==
    IF a = <<>> THEN b # <<>>
    ELSE IF b = <<>> THEN FALSE
    ELSE IF a[1] # b[1] THEN IndexIn(Bytes, a[1]) < IndexIn(Bytes, b[1])
    ELSE StringLess(Tail(a), Tail(b))
SortStrings(names) ==
    CHOOSE p \in Orders(names) :
        \A i \in 1..(Len(p) - 1) : StringLess(p[i], p[i + 1])
\* Registry.List
List(gens) == SortStrings(DOMAIN gens)

Config(version, config, generate) ==
    [Version |-> version, Config |-> config, Generate |-> generate]
GenerateTask(generator, input, output, config) ==
    [Generator |-> generator, Input |-> input, Output |-> output, Config |-> config]

\* the mutant of MergedConfig in which the global configuration wins
MergedConfigGlobalFirst(c, taskIndex) ==
    IF taskIndex < 0 \/ taskIndex >= Len(c.Generate) THEN Nil
    ELSE c.Config @@ c.Generate[taskIndex + 1].Config

\* Config.MergedConfig(taskIndex), taskIndex counted from 0
MergedConfig(c, taskIndex) ==
    IF taskIndex < 0 \/ taskIndex >= Len(c.Generate) THEN Nil
    ELSE c.Generate[taskIndex + 1].Config @@ c.Config

(***************************************************************************)
(* Paths (path/filepath on a slash-separated file system) and the disk a   *)
(* configuration is loaded from.                                           *)
(***************************************************************************)
DotDot == <<".", ".">>
\* filepath.Clean: the elements of a path with "", "." and inner ".." removed
RECURSIVE CleanParts(_, _, _)
CleanParts(parts, rooted, out) ==
    IF parts = <<>> THEN out
    ELSE LET p == Head(parts)
             rest == Tail(parts) IN
         IF p = <<>> \/ p = Dot THEN CleanParts(rest, rooted, out)
         ELSE IF p = DotDot
              THEN IF out # <<>> /\ out[Len(out)] # DotDot
                   THEN CleanParts(rest, rooted, SubSeq(out, 1, Len(out) - 1))
                   ELSE IF rooted THEN CleanParts(rest, rooted, out)
                   ELSE CleanParts(rest, rooted, Append(out, p))
              ELSE CleanParts(rest, rooted, Append(out, p))
\* filepath.IsAbs
IsAbs(path) == path # <<>> /\ path[1] = "/"
Clean(path) ==
    LET body == Join(CleanParts(Split(path, Slash), IsAbs(path), <<>>), Slash) IN
    IF IsAbs(path) THEN Slash \o body
    ELSE IF body = <<>> THEN Dot ELSE body
\* the index of the last slash of a path, 0 when it has none
LastSlash(path) ==
    IF \E i \in DOMAIN path : path[i] = "/"
    THEN CHOOSE i \in DOMAIN path :
             path[i] = "/" /\ \A j \in (i + 1)..Len(path) : path[j] # "/"
    ELSE 0
\* filepath.Dir
Dir(path) == Clean(SubSeq(path, 1, LastSlash(path)))
\* filepath.Abs in a process whose working directory is wd
Abs(wd, path) ==
    IF IsAbs(path) THEN Clean(path) ELSE Clean(wd \o Slash \o path)

\* what a disk holds at an absolute path: a directory or a file; the content
\* of a file is the Config yaml.Unmarshal makes of it, Nil when it is not YAML
IsDirectory == [k |-> "dir"]
YamlFile(doc) == [k |-> "file", doc |-> doc]
\* os.Stat of a path by a process whose working directory is wd: Nil when
\* nothing exists there
Stat(disk, wd, path) ==
    IF Abs(wd, path) \in DOMAIN disk THEN disk[Abs(wd, path)] ELSE Nil

ConfigFileName == <<"t", "y", "p", "e", "g", "e", "n", ".", "y", "a", "m", "l">>

\* the task after the defaults of applyDefaults
applyTaskDefaults(wd, task) ==
    LET in == IF task.Input = <<>> THEN Dot ELSE task.Input IN
    [Generator |-> task.Generator,
     Input |-> IF IsAbs(in) THEN in ELSE Abs(wd, in),
     Output |-> IF task.Output # <<>> /\ ~IsAbs(task.Output)
                THEN Abs(wd, task.Output) ELSE task.Output,
     Config |-> IF task.Config = Nil THEN EmptyMap ELSE task.Config]
\* Config.applyDefaults
applyDefaults(wd, c) ==
    [Version |-> IF c.Version = 0 THEN 1 ELSE c.Version,
     Config |-> IF c.Config = Nil THEN EmptyMap ELSE c.Config,
     Generate |-> [i \in DOMAIN c.Generate |-> applyTaskDefaults(wd, c.Generate[i])]]

\* Config.validate: its checks of the tasks from task i on, in order
RECURSIVE validateTasks(_, _, _, _)
validateTasks(disk, wd, c, i) ==
    IF i > Len(c.Generate) THEN Nil
    ELSE LET task == c.Generate[i]
             info == Stat(disk, wd, task.Input) IN
         IF task.Generator = <<>>
         THEN Error(<<"generate task %d: generator is required", i - 1>>)
         ELSE IF task.Output = <<>>
         THEN Error(<<"generate task %d: output is required", i - 1>>)
         ELSE IF info = Nil
         THEN Error(<<"generate task %d: input directory does not exist: %s",
                      i - 1, task.Input>>)
         ELSE IF info # IsDirectory
         THEN Error(<<"generate task %d: input path is not a directory: %s",
                      i - 1, task.Input>>)
         ELSE validateTasks(disk, wd, c, i + 1)
\* the mutant of validate that supports every version
validateAnyVersion(disk, wd, c) ==
    IF Len(c.Generate) = 0 THEN Error(<<"no generate tasks defined">>)
    ELSE validateTasks(disk, wd, c, 1)

\* Config.validate: the error, Nil when the configuration is valid
validate(disk, wd, c) ==
    IF c.Version # 1
    THEN Error(<<"unsupported config version: %d (supported: 1)", c.Version>>)
    ELSE IF Len(c.Generate) = 0 THEN Error(<<"no generate tasks defined">>)
    ELSE validateTasks(disk, wd, c, 1)

\* LoadConfig(configPath) by a process whose working directory is wd
LoadConfig(disk, wd, configPath) ==
    LET path == IF configPath = <<>> THEN ConfigFileName ELSE configPath
        file == Stat(disk, wd, path) IN
    IF file = Nil THEN Err(<<"config file not found: %s", path>>)
    ELSE IF file = IsDirectory THEN Err(<<"failed to read config file: %w">>)
    ELSE IF file.doc = Nil THEN Err(<<"failed to parse config file: %w">>)
    ELSE LET config == applyDefaults(wd, file.doc)
             err == validate(disk, wd, config) IN
         IF err # Nil THEN [value |-> Nil, err |-> err] ELSE Ok(config)

(***************************************************************************)
(* InMemoryFS. Byte slices live in a heap: a slice is a reference to its   *)
(* bytes, and whoever holds the reference can change them.                 *)
(***************************************************************************)
\* make([]byte, len(data)) and copy: the heap with a fresh slice holding data
Alloc(heap, data) == Append(heap, data)
\* the paths dir, parts[:1], parts[:2], ... that WriteFile and MkdirAll mark
ParentDirs(path) ==
    LET parts == Split(path, Slash) IN
    {path} \cup {Join(SubSeq(parts, 1, i), Slash) : i \in 1..Len(parts)}

NewInMemoryFS == [files |-> EmptyMap, dirs |-> {}, heap |-> <<>>]

\* the mutant of WriteFile that stores the caller's slice itself
WriteFileNoCopy(fs0, name, data) ==
    LET dir == Dir(name) IN
    [files |-> (name :> data) @@ fs0.files,
     dirs |-> IF dir # Dot THEN fs0.dirs \cup ParentDirs(dir) ELSE fs0.dirs,
     heap |-> fs0.heap]

\* InMemoryFS.WriteFile(name, data, perm): data is the caller's slice
WriteFile(fs0, name, data) ==
    LET dir == Dir(name) IN
    [files |-> (name :> (Len(fs0.heap) + 1)) @@ fs0.files,
     dirs |-> IF dir # Dot THEN fs0.dirs \cup ParentDirs(dir) ELSE fs0.dirs,
     heap |-> Alloc(fs0.heap, fs0.heap[data])]

\* InMemoryFS.MkdirAll(path, perm)
MkdirAll(fs0, path) == [fs0 EXCEPT !.dirs = fs0.dirs \cup ParentDirs(path)]

\* InMemoryFS.GetFile(path): the file system after the call, the slice
\* returned and the flag returned
GetFile(fs0, path) ==
    IF path \notin DOMAIN fs0.files
    THEN [fs |-> fs0, content |-> Nil, exists |-> FALSE]
    ELSE [fs |-> [fs0 EXCEPT !.heap = Alloc(fs0.heap, fs0.heap[fs0.files[path]])],
          content |-> Len(fs0.heap) + 1, exists |-> TRUE]

\* InMemoryFS.ListFiles
ListFiles(fs0) == SortStrings(DOMAIN fs0.files)
\* InMemoryFS.DirExists
DirExists(fs0, path) == path \in fs0.dirs

(***************************************************************************)
(* The JSON codecs the backends generate for an enum. A value of an enum   *)
(* is a variant name with its payload, Nil when the variant has none; a    *)
(* payload is kept as the JSON value that encodes it.                      *)
(***************************************************************************)
JString(s) == [j |-> "string", s |-> s]
JObject(members) == [j |-> "object", members |-> members]
EnumValue(variant, payload) == [variant |-> variant, payload |-> payload]

\* an enum none of whose variants carries a payload
IsSimpleEnum(enum) ==
    \A n \in DOMAIN enum.Variants : enum.Variants[n].Payload = Nil
VariantNamed(enum, name) ==
    IF \E n \in DOMAIN enum.Variants : enum.Variants[n].Name = name
    THEN enum.Variants[CHOOSE n \in DOMAIN enum.Variants :
                           enum.Variants[n].Name = name]
    ELSE Nil
\* the object of a value: its "type", and its "payload" when it has one
TaggedObject(value) ==
    IF value.payload = Nil THEN JObject("type" :> JString(value.variant))
    ELSE JObject(("type" :> JString(value.variant))
                 @@ ("payload" :> value.payload))

\* the mutant of the Go encoder that writes a simple enum as a bare string
MarshalJSONBareString(enum, value) ==
    IF IsSimpleEnum(enum) THEN JString(value.variant) ELSE TaggedObject(value)

\* Go backend, MarshalJSON: a simple enum marshals map[string]string{"type":
\* e.String()}, a tagged union its type and payload
MarshalJSON(enum, value) ==
    IF IsSimpleEnum(enum) THEN JObject("type" :> JString(value.variant))
    ELSE TaggedObject(value)

\* Pydantic backend, serialization: a simple enum returns {"type":
\* self.value}, a union dumps the variant's model (type, payload)
SerializeToJson(enum, value) ==
    IF IsSimpleEnum(enum) THEN JObject("type" :> JString(value.variant))
    ELSE TaggedObject(value)

\* decoding, the same in both backends: an object with a "type" naming a
\* variant and a "payload" exactly when the variant carries one
DecodeTagged(enum, json) ==
    IF json.j # "object" THEN Err("expected an object")
    ELSE IF "type" \notin DOMAIN json.members THEN Err("missing 'type' field")
    ELSE IF json.members["type"].j # "string" THEN Err("invalid 'type' field")
    ELSE LET variant == VariantNamed(enum, json.members["type"].s) IN
         IF variant = Nil THEN Err("unknown enum value")
         ELSE IF DOMAIN json.members \ {"type", "payload"} # {}
         THEN Err("unknown member")
         ELSE IF (variant.Payload # Nil) # ("payload" \in DOMAIN json.members)
         THEN Err("payload mismatch")
         ELSE IF variant.Payload = Nil THEN Ok(EnumValue(variant.Name, Nil))
         ELSE IF json.members["payload"].j # "string" THEN Err("invalid payload")
         ELSE Ok(EnumValue(variant.Name, json.members["payload"]))
\* Go backend, UnmarshalJSON
UnmarshalJSON(enum, json) == DecodeTagged(enum, json)
\* Pydantic backend, validation from JSON
ValidateFromJson(enum, json) == DecodeTagged(enum, json)

(***************************************************************************)
(* The Pydantic generator: the file it emits for one source file.  Its     *)
(* imports come from the types the declarations of the file reference;     *)
(* its declarations are emitted dependencies first, a declaration of a     *)
(* cycle in source order with forward references to what is not yet        *)
(* emitted, and the models of a cycle are rebuilt after the declarations.  *)
(***************************************************************************)
\* the names a type refers to: what is left of it below arrays, maps and
\* optionals
RECURSIVE NamedLeaves(_)
NamedLeaves(t) ==
    CASE t.k = "Named" -> {t.Name}
      [] t.k = "Array" -> NamedLeaves(t.ElementType)
      [] t.k = "Optional" -> NamedLeaves(t.ElementType)
      [] t.k = "Map" -> NamedLeaves(t.KeyType) \cup NamedLeaves(t.ValueType)
      [] OTHER -> {}

\* the types a declaration references: field types, payloads, alias target
References(d) ==
    CASE d.kind = "struct" ->
            UNION {NamedLeaves(d.Fields[i].Type) : i \in DOMAIN d.Fields}
      [] d.kind = "enum" ->
            UNION {NamedLeaves(d.Variants[i].Payload)
                      : i \in {j \in DOMAIN d.Variants : d.Variants[j].Payload # Nil}}
      [] d.kind = "alias" -> NamedLeaves(d.Type)
      [] OTHER -> {}

\* the types a file defines
DefinedIn(program) ==
    {program.Declarations[i].Name
        : i \in {j \in DOMAIN program.Declarations
                    : program.Declarations[j].kind # "constant"}}

\* user.tg is generated as the Python module user
PyModuleName(file) ==
    IF HasSuffix(file, <<".", "t", "g">>) THEN SubSeq(file, 1, Len(file) - 3)
    ELSE file

ImportLine(file, name) ==
    <<"f", "r", "o", "m", " ", ".">> \o PyModuleName(file)
        \o <<" ", "i", "m", "p", "o", "r", "t", " ">> \o name

\* the file a referenced type is imported from: one that defines it, the
\* first by name when several do
DefiningFile(module, file, name) ==
    LET others == {g \in DOMAIN module.Files \ {file}
                      : name \in DefinedIn(module.Files[g])} IN
    IF others = {} THEN Nil
    ELSE CHOOSE g \in others : \A h \in others \ {g} : StringLess(g, h)

\* the types the file references, those it defines itself included
collectImportsWithSelf(module, file) ==
    LET program == module.Files[file]
        used == UNION {References(program.Declarations[i])
                          : i \in DOMAIN program.Declarations} IN
    {ImportLine(IF n \in DefinedIn(program) THEN file
                ELSE DefiningFile(module, file, n), n)
        : n \in {u \in used : u \in DefinedIn(program)
                              \/ DefiningFile(module, file, u) # Nil}}

\* the cross-file imports of a file: one line for each referenced type that
\* another file defines
collectImports(module, file) ==
    LET program == module.Files[file]
        used == UNION {References(program.Declarations[i])
                          : i \in DOMAIN program.Declarations} IN
    {ImportLine(DefiningFile(module, file, n), n)
        : n \in {u \in used : u \notin DefinedIn(program)
                              /\ DefiningFile(module, file, u) # Nil}}

\* the import lines in the order they are written
ImportLines(module, file) == SortStrings(collectImports(module, file))

\* the declarations of the file a declaration depends on
LocalDeps(program, name) ==
    UNION {References(program.Declarations[i]) \cap DefinedIn(program)
              : i \in {j \in DOMAIN program.Declarations
                          : program.Declarations[j].Name = name}}

\* what a declaration reaches through one or more dependencies
RECURSIVE ReachedFrom(_, _, _)
ReachedFrom(program, frontier, seen) ==
    LET next == UNION {LocalDeps(program, n) : n \in frontier} \ seen IN
    IF next = {} THEN seen
    ELSE ReachedFrom(program, next, seen \cup next)
Reaches(program, a, b) == b \in ReachedFrom(program, {a}, {})

\* a declaration participates in a cycle when it reaches itself
InCycle(program, name) == Reaches(program, name, name)
SameCycle(program, a, b) == Reaches(program, a, b) /\ Reaches(program, b, a)

\* the next declaration to emit: the first in source order whose
\* dependencies are emitted already or belong to its own cycle
CanEmit(program, i, done) ==
    LET d == program.Declarations[i] IN
    /\ i \notin done
    /\ \A j \in DOMAIN program.Declarations :
           (j \notin done /\ program.Declarations[j].Name \in LocalDeps(program, d.Name))
               => SameCycle(program, d.Name, program.Declarations[j].Name)
NextToEmit(program, done) ==
    CHOOSE i \in DOMAIN program.Declarations :
        /\ CanEmit(program, i, done)
        /\ \A j \in 1..(i - 1) : ~CanEmit(program, j, done)

\* one emitted declaration: every reference is written plain, a reference
\* to a declaration of the file still to come is never quoted
EmitDeclarationPlain(program, i, done) ==
    LET d == program.Declarations[i] IN
    [Name |-> d.Name, kind |-> d.kind, index |-> i,
     plain |-> References(d), forward |-> {}]

\* one emitted declaration: a reference to a declaration of the file that
\* is not emitted yet (the declaration itself included) is written as a
\* forward reference, 'Name'; every other reference is written plain
EmitDeclaration(program, i, done) ==
    LET d == program.Declarations[i]
        emittedNames == {program.Declarations[j].Name : j \in done} IN
    LET forward == {r \in References(d) :
                       r \in DefinedIn(program) /\ r \notin emittedNames} IN
    [Name |-> d.Name, kind |-> d.kind, index |-> i,
     plain |-> References(d) \ forward, forward |-> forward]

\* Result_Success: the model of a payload-carrying variant
VariantClassName(enumName, variantName) ==
    enumName \o <<"_">> \o <<ToUpper(variantName[1])>> \o Tail(variantName)

\* the models of a declaration: a struct is one, an enum has one for each
\* variant that carries a payload
ModelsOf(d) ==
    CASE d.kind = "struct" -> <<d.Name>>
      [] d.kind = "enum" ->
            LET carrying == SelectSeq(d.Variants, LAMBDA v : v.Payload # Nil) IN
            [i \in DOMAIN carrying |-> VariantClassName(d.Name, carrying[i].Name)]
      [] OTHER -> <<>>

\* the model_rebuild() calls that follow the declarations, in source order
RECURSIVE Rebuilds(_, _)
Rebuilds(program, i) ==
    IF i > Len(program.Declarations) THEN <<>>
    ELSE (IF InCycle(program, program.Declarations[i].Name)
          THEN ModelsOf(program.Declarations[i]) ELSE <<>>)
         \o Rebuilds(program, i + 1)

(***************************************************************************)
(* The registry with module paths (validator/resolver.go): every type is   *)
(* also registered under the module path of its file, and a qualified      *)
(* name alias.Type is looked up there.                                     *)
(***************************************************************************)
\* strings.TrimSuffix
TrimSuffix(s, suffix) ==
    IF HasSuffix(s, suffix) THEN SubSeq(s, 1, Len(s) - Len(suffix)) ELSE s
\* strings.ReplaceAll for a non-empty old
ReplaceAll(s, old, new) == Join(Split(s, old), new)
\* strings.SplitN(s, sep, 2): s cut at the first sep, or s alone
RECURSIVE FirstIndex(_, _, _)
FirstIndex(s, sep, i) ==
    IF i > Len(s) THEN 0
    ELSE IF HasPrefixAt(s, i, sep) THEN i
    ELSE FirstIndex(s, sep, i + 1)
SplitN2(s, sep) ==
    LET i == FirstIndex(s, sep, 1) IN
    IF i = 0 THEN <<s>>
    ELSE <<SubSeq(s, 1, i - 1), SubSeq(s, i + Len(sep), Len(s))>>

\* "auth/user.tg" -> "auth.user", "user.tg" -> "user"
fileToModulePath(file) ==
    ReplaceAll(TrimSuffix(file, <<".", "t", "g">>), Slash, Dot)

ModuleTypeInfo(name, declType, file, line, column) ==
    [Name |-> name, DeclType |-> declType, File |-> file,
     Line |-> line, Column |-> column]
NewModuleTypeRegistry == [types |-> EmptyMap, moduleTypes |-> EmptyMap]

\* RegisterType of resolver.go: under file::name and under modulepath.name
RegisterModuleType(r, name, declType, file, line, column) ==
    LET typeInfo == ModuleTypeInfo(name, declType, file, line, column) IN
    [types |-> (qualifyName(name, file) :> typeInfo) @@ r.types,
     moduleTypes |-> ((fileToModulePath(file) \o Dot \o name) :> typeInfo)
                        @@ r.moduleTypes]

QualifiedTypeExists(r, qualifiedName, modulePath) ==
    LET parts == SplitN2(qualifiedName, Dot) IN
    IF qualifiedName \in DOMAIN r.moduleTypes THEN TRUE
    ELSE IF Len(parts) # 2 THEN FALSE
    ELSE LET moduleAlias == parts[1]
             typeName == parts[2] IN
         \E moduleTypeKey \in DOMAIN r.moduleTypes :
            /\ HasSuffix(moduleTypeKey, Dot \o typeName)
            /\ \/ HasSuffix(modulePath, Dot \o moduleAlias)
               \/ modulePath = moduleAlias
               \/ SplitN2(moduleTypeKey, Dot \o typeName)[1] = modulePath

(***************************************************************************)
(* The names of a module (parser/ast/module.go).  Both functions append    *)
(* the keys of a map in the order its iteration yields them, which Go      *)
(* leaves unspecified: each is the set of lists a call can return.         *)
(***************************************************************************)
\* Module.FileNames
FileNames(m) == Orders(DOMAIN m.Files)
\* Module.SubModuleNames
SubModuleNames(m) == Orders(DOMAIN m.SubModules)

(***************************************************************************)
(* The state: one Validator (its registry and its result), the module it   *)
(* validated last, and what its first validation returned.                 *)
(***************************************************************************)
VARIABLES
    registry,   \* v.registry: qualified name -> TypeInfo
    result,     \* v.result: [Errors, Valid]
    input,      \* the module of the latest Validate call, Nil before it
    first,      \* [module, errors]: the first Validate call and its error set
    lookup,     \* the latest query of the registry and its answers, or Nil
    builder,    \* a Builder: [config, moduleCache, validationCache]
    building,   \* a call of Builder.Build in progress: its loop and its locals
    generators, \* defaultRegistry.generators: name -> constructor
    calls,      \* the Register calls made, in order, and the latest Get or List
    loaded,     \* the latest call of LoadConfig or MergedConfig and its result
    fs,         \* an InMemoryFS: [files, dirs] and the buffers its callers hold
    parsed,     \* the latest call of ParseModuleToAST and its result
    emitted     \* the latest output of a generator or of the code it generated

validatorVars == <<registry, result, input, first, lookup>>
registryVars == <<generators, calls>>
buildVars == <<builder, building, registryVars>>
vars == <<validatorVars, buildVars, loaded, fs, parsed, emitted>>

NewValidationResult == [Errors |-> <<>>, Valid |-> TRUE]
ErrorSet(res) == Range(res.Errors)

InitValidator ==
    /\ registry = NewTypeRegistry
    /\ result = NewValidationResult
    /\ input = Nil
    /\ first = Nil
    /\ lookup = Nil
\* nothing built, loaded, written or parsed yet
NoCalls == [registered |-> <<>>, query |-> Nil]
InitBuilder ==
    /\ builder = Nil /\ building = Nil
    /\ generators = NewRegistry /\ calls = NoCalls
InitOthers == loaded = Nil /\ fs = Nil /\ parsed = Nil /\ emitted = Nil

Init == InitValidator /\ InitBuilder /\ InitOthers

\* NewValidator: a fresh validator replaces the one in use
NewValidator ==
    /\ input # Nil
    /\ registry' = NewTypeRegistry
    /\ result' = NewValidationResult
    /\ input' = Nil
    /\ UNCHANGED <<first, lookup, buildVars, loaded, fs, parsed, emitted>>

\* Validator.Validate(m): result and registry are rebuilt, the tree is
\* walked, the cycles are checked
Validate(m) ==
    \E run \in ValidateRuns(m) :
        /\ registry' = run.registry
        /\ result' = [Errors |-> run.errors, Valid |-> run.errors = <<>>]
        /\ input' = m
        /\ first' = IF first = Nil
                    THEN [module |-> m, errors |-> Range(run.errors)]
                    ELSE first
        /\ UNCHANGED <<lookup, buildVars, loaded, fs, parsed, emitted>>

\* The first call validates any module; later calls validate it again or
\* one of the other modules.
Next ==
    \/ \E m \in Modules : first = Nil /\ Validate(m)
    \/ \E m \in OtherModules : first # Nil /\ Validate(m)
    \/ first # Nil /\ Validate(first.module)
    \/ NewValidator

Spec == Init /\ [][Next]_vars

(***************************************************************************)
(* The registry on its own: declarations are registered one at a time and  *)
(* the registry is queried in between.                                     *)
(***************************************************************************)
RegisteredNames == {N_A, N_B, S_string}
QueriedNames == RegisteredNames \cup {S_int8, N_Missing}
RegisteringFiles == {F_a, F_b}
QueryingFiles == RegisteringFiles \cup {F_c}

\* TypeRegistry.RegisterType(name, declType, file, line, column)
RegisterTypeCall(name, declType, file) ==
    /\ registry' = RegisterType(registry, name, declType, file, 1, 1)
    /\ lookup' = Nil
    /\ UNCHANGED <<result, input, first, buildVars, loaded, fs, parsed, emitted>>

\* TypeExists(name, currentFile) and FindType(name, currentFile) asked of
\* the same registry; found is Nil for (nil, false)
Query(name, currentFile) ==
    /\ \E found \in (IF FindType(registry, name, currentFile) = {}
                      THEN {Nil} ELSE FindType(registry, name, currentFile)) :
          lookup' = [name |-> name, currentFile |-> currentFile,
                     exists |-> TypeExists(registry, name, currentFile),
                     found |-> found]
    /\ UNCHANGED <<registry, result, input, first, buildVars, loaded, fs, parsed, emitted>>

NextRegistry ==
    \/ \E name \in RegisteredNames, declType \in {"struct", "enum"},
          file \in RegisteringFiles : RegisterTypeCall(name, declType, file)
    \/ \E name \in QueriedNames, currentFile \in QueryingFiles :
          Query(name, currentFile)

SpecRegistry == Init /\ [][NextRegistry]_vars

(***************************************************************************)
(* The Builder.  Build runs the tasks of its configuration one after the   *)
(* other; a task gets its generator, parses its input (cached by path),    *)
(* validates it (cached by path) and generates.                            *)
(***************************************************************************)
\* Largest number of tasks of a generated configuration.
MaxTasks == 3

NewBuilder(config) ==
    [config |-> config, moduleCache |-> EmptyMap, validationCache |-> EmptyMap]

\* the input directories of the tasks: one that parses and validates, one
\* that parses and does not validate, one with a file that does not parse
P_good == <<"/", "g">>
P_invalid == <<"/", "i">>
P_broken == <<"/", "b">>
GoodSource(decls) == Source(0, 0, Program(<<>>, decls))
BuildDisk ==
    (P_good :> DirEntry(P_good, TRUE,
                  <<FileEntry(F_a, TRUE, GoodSource(<<EmptyStructB>>))>>))
    @@ (P_invalid :> DirEntry(P_invalid, TRUE,
                  <<FileEntry(F_a, TRUE,
                      GoodSource(<<StructNode(N_x, <<>>, NoPos)>>))>>))
    @@ (P_broken :> DirEntry(P_broken, TRUE,
                  <<FileEntry(F_a, TRUE, GoodSource(<<EmptyStructB>>)),
                    FileEntry(F_b, TRUE, Source(1, 1, Nil))>>))
ReadDisk(path) == IF path \in DOMAIN BuildDisk THEN BuildDisk[path] ELSE Nil

Event(op, at) == [op |-> op, at |-> at]

\* a getOrParseModule that parses whatever the cache holds
getOrParseModuleAgain(b, modulePath) ==
    LET got == ParseModuleToAST(ReadDisk(modulePath)) IN
    IF got.err # Nil
    THEN [b |-> b, value |-> Nil, err |-> Error("failed to parse module"),
          events |-> <<Event("parse", modulePath)>>]
    ELSE [b |-> [b EXCEPT !.moduleCache = (modulePath :> got.value) @@ @],
          value |-> got.value, err |-> Nil,
          events |-> <<Event("parse", modulePath)>>]

\* getOrParseModule: [b, value, err, events]
getOrParseModule(b, modulePath) ==
    IF modulePath \in DOMAIN b.moduleCache
    THEN [b |-> b, value |-> b.moduleCache[modulePath], err |-> Nil, events |-> <<>>]
    ELSE LET got == ParseModuleToAST(ReadDisk(modulePath)) IN
         IF got.err # Nil
         THEN [b |-> b, value |-> Nil, err |-> Error("failed to parse module"),
               events |-> <<Event("parse", modulePath)>>]
         ELSE [b |-> [b EXCEPT !.moduleCache = (modulePath :> got.value) @@ @],
               value |-> got.value, err |-> Nil,
               events |-> <<Event("parse", modulePath)>>]

\* getOrValidateModule: the results it can return, (nil, nil) on a cache hit
getOrValidateModule(b, m, modulePath) ==
    IF modulePath \in DOMAIN b.validationCache
    THEN {[b |-> b, value |-> Nil, events |-> <<>>]}
    ELSE {[b |-> [b EXCEPT !.validationCache =
                       (modulePath :> [Errors |-> r.errors, Valid |-> r.errors = <<>>]) @@ @],
           value |-> [Errors |-> r.errors, Valid |-> r.errors = <<>>],
           events |-> <<Event("validate", modulePath)>>]
            : r \in ValidateRuns(m)}

HasErrors(res) == Len(res.Errors) > 0

\* executeTask: the outcomes [b, err, events] it can have
executeTask(b, gens, task, taskIndex) ==
    LET got == Get(gens, task.Generator) IN
    IF got.err # Nil
    THEN {[b |-> b, err |-> Error("generator not found"), events |-> <<>>]}
    ELSE
    LET generator == SetConfig(got.value, MergedConfig(b.config, taskIndex))
        mod == getOrParseModule(b, task.Input) IN
    IF mod.err # Nil
    THEN {[b |-> mod.b, err |-> mod.err, events |-> mod.events]}
    ELSE
    {IF val.value # Nil /\ HasErrors(val.value)
     THEN [b |-> val.b, err |-> Error("validation failed"),
           events |-> mod.events \o val.events]
     ELSE [b |-> val.b,
           err |-> IF generator.shouldErr
                   THEN Error("code generation failed") ELSE Nil,
           events |-> mod.events \o val.events
                      \o <<Event("generate",
                                 [task |-> taskIndex, output |-> task.Output,
                                  builtBy |-> generator.builtBy,
                                  config |-> generator.config])>>]
       : val \in getOrValidateModule(mod.b, mod.value, task.Input)}

\* the locals of Build before its loop
NewBuild ==
    [i |-> 0, buildErrors |-> <<>>, successCount |-> 0,
     returned |-> FALSE, err |-> Nil, attempted |-> <<>>, events |-> <<>>]

\* one round of the loop of Build over b.config.Generate
BuildTask ==
    /\ building # Nil /\ ~building.returned
    /\ IF builder.config = Nil THEN FALSE
       ELSE building.i < Len(builder.config.Generate)
    /\ LET task == builder.config.Generate[building.i + 1] IN
       \E out \in executeTask(builder, generators, task, building.i) :
          /\ builder' = out.b
          /\ building' =
                [building EXCEPT
                    !.i = @ + 1,
                    !.buildErrors =
                        IF out.err # Nil
                        THEN Append(@, [task |-> building.i + 1,
                                        generator |-> task.Generator,
                                        err |-> out.err])
                        ELSE @,
                    !.successCount = IF out.err # Nil THEN @ ELSE @ + 1,
                    !.attempted = Append(@, building.i),
                    !.events = @ \o out.events]
    /\ UNCHANGED <<validatorVars, registryVars, loaded, fs, parsed, emitted>>

\* A Build that gives up as soon as a task has failed.
BuildReturnAtFirstFailure ==
    /\ building # Nil /\ ~building.returned
    /\ IF builder.config = Nil THEN TRUE
       ELSE \/ building.i = Len(builder.config.Generate)
            \/ Len(building.buildErrors) > 0
    /\ building' =
          [building EXCEPT
              !.returned = TRUE,
              !.err = IF builder.config = Nil
                      THEN Error("no configuration provided")
                      ELSE IF Len(building.buildErrors) > 0
                      THEN Error("build failed with errors")
                      ELSE Nil]
    /\ UNCHANGED <<validatorVars, builder, registryVars, loaded, fs, parsed, emitted>>

\* Build returns: at once without a configuration, else after the loop
BuildReturn ==
    /\ building # Nil /\ ~building.returned
    /\ IF builder.config = Nil THEN TRUE
       ELSE building.i = Len(builder.config.Generate)
    /\ building' =
          [building EXCEPT
              !.returned = TRUE,
              !.err = IF builder.config = Nil
                      THEN Error("no configuration provided")
                      ELSE IF Len(building.buildErrors) > 0
                      THEN Error("build failed with errors")
                      ELSE Nil]
    /\ UNCHANGED <<validatorVars, builder, registryVars, loaded, fs, parsed, emitted>>

\* the generators registered before a build, and the configurations built
G_go == <<"g", "o">>
G_python == <<"p", "y">>
G_unknown == <<"n", "o">>
BuildRegistry ==
    Register(Register(NewRegistry, G_go, Constructor(1, FALSE)),
             G_python, Constructor(2, TRUE))
TaskKinds ==
    {GenerateTask(k[1], k[2], <<"/", "o">>, "task" :> k[1])
       : k \in {<<G_go, P_good>>, <<G_go, P_invalid>>, <<G_go, P_broken>>,
                <<G_python, P_good>>, <<G_unknown, P_good>>}}
BuildConfigs ==
    {Config(1, ("global" :> <<"v">>) @@ ("task" :> <<"v">>), tasks)
       : tasks \in SeqsUpTo(TaskKinds, MaxTasks)}

InitBuild ==
    /\ InitValidator /\ InitOthers
    /\ builder \in {NewBuilder(c) : c \in BuildConfigs \cup {Nil}}
    /\ building = NewBuild
    /\ generators = BuildRegistry /\ calls = NoCalls

NextBuild == BuildTask \/ BuildReturn

\* Build is a loop over a finite list: it runs on until it returns
SpecBuild == InitBuild /\ [][NextBuild]_vars /\ WF_vars(NextBuild)

(***************************************************************************)
(* Loading a configuration: LoadConfig reads a disk from a working         *)
(* directory, MergedConfig is asked of the Config it returned.             *)
(***************************************************************************)
\* the most tasks a document with task configurations has
MaxConfigTasks == 2

D_p == <<"/", "p">>
D_w == <<"/", "w">>
D_d == <<"/", "d">>
R_in == <<"i", "n">>
R_f == <<"f">>
R_out == <<"o", "u", "t">>
A_o == <<"/", "o">>
A_missing == <<"/", "x">>
\* the disk: the configuration file lives in /p, next to the directory in;
\* /w holds a file f; /d is a directory
ConfigDisk(doc) ==
    (D_p :> IsDirectory) @@ (D_w :> IsDirectory) @@ (D_d :> IsDirectory)
    @@ ((D_p \o Slash \o ConfigFileName) :> YamlFile(doc))
    @@ ((D_p \o Slash \o R_in) :> IsDirectory)
    @@ ((D_w \o Slash \o R_f) :> YamlFile(Nil))

GoodTask == GenerateTask(G_go, Dot, A_o, Nil)
\* documents that differ in the fields LoadConfig defaults and validates
FieldDocs ==
    {Config(version, Nil, tasks) :
        version \in {0, 1, 2},
        tasks \in {<<>>}
            \cup {<<GenerateTask(g, in, out, Nil)>> :
                    g \in {<<>>, G_go},
                    in \in {<<>>, R_in, R_f, D_d, A_missing, D_w \o Slash \o R_f},
                    out \in {<<>>, R_out, A_o}}
            \cup {<<GoodTask, GenerateTask(g, in, A_o, Nil)>> :
                    g \in {<<>>, G_go}, in \in {<<>>, A_missing}}}
ConfigMaps(value) ==
    {Nil, EmptyMap, "module-name" :> value, "timeout" :> value,
     ("module-name" :> value) @@ ("timeout" :> value)}
\* documents that differ in their global and task configurations
MergeDocs ==
    {Config(1, global, tasks) :
        global \in ConfigMaps(<<"g">>),
        tasks \in SeqsUpTo({GenerateTask(G_go, Dot, A_o, c) : c \in ConfigMaps(<<"t">>)}, MaxConfigTasks)
                 \ {<<>>}}
ConfigDocs == FieldDocs \cup MergeDocs \cup {Nil}
WorkingDirs == {D_p, D_w}
ConfigPaths ==
    {<<>>, ConfigFileName, D_p \o Slash \o ConfigFileName,
     <<"n", "o", ".", "y", "a", "m", "l">>, D_d}

\* LoadConfig(configPath) called in the working directory wd
LoadConfigCall(wd, configPath) ==
    /\ loaded.k = "disk"
    /\ loaded' = [k |-> "loaded", disk |-> loaded.disk, wd |-> wd,
                  configPath |-> configPath,
                  result |-> LoadConfig(loaded.disk, wd, configPath)]
    /\ UNCHANGED <<validatorVars, buildVars, fs, parsed, emitted>>

\* config.MergedConfig(taskIndex) on the Config LoadConfig returned; the
\* Config is what it is after the call
MergedConfigCall(taskIndex) ==
    /\ loaded.k = "loaded"
    /\ loaded.result.err = Nil
    /\ loaded' = [k |-> "merged", disk |-> loaded.disk, wd |-> loaded.wd,
                  configPath |-> loaded.configPath, result |-> loaded.result,
                  before |-> loaded.result.value, taskIndex |-> taskIndex,
                  merged |-> MergedConfig(loaded.result.value, taskIndex)]
    /\ UNCHANGED <<validatorVars, buildVars, fs, parsed, emitted>>

InitConfig ==
    /\ InitValidator /\ InitBuilder
    /\ fs = Nil /\ parsed = Nil /\ emitted = Nil
    /\ loaded \in {[k |-> "disk", disk |-> ConfigDisk(doc)] : doc \in ConfigDocs}

NextConfig ==
    \/ \E wd \in WorkingDirs, configPath \in ConfigPaths :
           LoadConfigCall(wd, configPath)
    \/ \E taskIndex \in -1..MaxConfigTasks : MergedConfigCall(taskIndex)

SpecConfig == InitConfig /\ [][NextConfig]_vars

(***************************************************************************)
(* The generator registry: Register, Get and List in any order.            *)
(***************************************************************************)
\* the most Register calls made on one registry
MaxRegistrations == 4
G_Go == <<"G", "o">>
GeneratorNames == {G_go, G_python, G_unknown, G_Go}
Constructors == {Constructor(1, FALSE), Constructor(2, FALSE)}

\* Register(name, constructor)
RegisterCall(name, constructor) ==
    /\ Len(calls.registered) < MaxRegistrations
    /\ generators' = Register(generators, name, constructor)
    /\ calls' = [registered |-> Append(calls.registered, <<name, constructor>>),
                 query |-> Nil]
    /\ UNCHANGED <<validatorVars, builder, building, loaded, fs, parsed, emitted>>

\* Get(name)
GetCall(name) ==
    /\ calls' = [calls EXCEPT !.query = [op |-> "Get", name |-> name,
                                         answer |-> Get(generators, name)]]
    /\ UNCHANGED <<validatorVars, builder, building, generators, loaded, fs, parsed, emitted>>

\* List()
ListCall ==
    /\ calls' = [calls EXCEPT !.query = [op |-> "List", name |-> Nil,
                                         answer |-> List(generators)]]
    /\ UNCHANGED <<validatorVars, builder, building, generators, loaded, fs, parsed, emitted>>

NextGenerators ==
    \/ \E name \in GeneratorNames, constructor \in Constructors :
           RegisterCall(name, constructor)
    \/ \E name \in GeneratorNames : GetCall(name)
    \/ ListCall

SpecGenerators == Init /\ [][NextGenerators]_vars

(***************************************************************************)
(* An InMemoryFS and its callers: they write files from slices they keep,  *)
(* create directories, change the bytes of the slices they hold, and ask.  *)
(***************************************************************************)
\* the most calls that change the file system or a slice
MaxFsCalls == 4
P_f == <<"f">>
P_a == <<"a">>
P_b == <<"b">>
FilePaths ==
    {P_f, P_a \o Slash \o P_b \o Slash \o P_f, Dot \o Slash \o P_a \o Slash \o P_f}
DirPaths == {P_a \o Slash \o P_b, Dot \o Slash \o P_b}
AskedDirs ==
    {P_a, P_b, P_a \o Slash \o P_b, Dot, Dot \o Slash \o P_a, Dot \o Slash \o P_b}
\* the bytes a caller writes with its n-th call: no two calls write the same
Contents(n) == {<<n>>}

FsCall(op, path, data) == [op |-> op, path |-> path, data |-> data]
InitFS ==
    /\ InitValidator /\ InitBuilder /\ loaded = Nil /\ parsed = Nil /\ emitted = Nil
    /\ fs = [sink |-> NewInMemoryFS, held |-> {}, log |-> <<>>, query |-> Nil]

\* fs.WriteFile(name, data, 0644) with a slice the caller made and keeps
WriteFileCall(name, content) ==
    /\ Len(fs.log) < MaxFsCalls
    /\ LET data == Len(fs.sink.heap) + 1
           made == [fs.sink EXCEPT !.heap = Alloc(fs.sink.heap, content)] IN
       fs' = [sink |-> WriteFile(made, name, data),
              held |-> fs.held \cup {data},
              log |-> Append(fs.log, FsCall("WriteFile", name, content)),
              query |-> Nil]
    /\ UNCHANGED <<validatorVars, buildVars, loaded, parsed, emitted>>

\* fs.MkdirAll(path, 0755)
MkdirAllCall(path) ==
    /\ Len(fs.log) < MaxFsCalls
    /\ fs' = [fs EXCEPT !.sink = MkdirAll(fs.sink, path),
                        !.log = Append(fs.log, FsCall("MkdirAll", path, Nil)),
                        !.query = Nil]
    /\ UNCHANGED <<validatorVars, buildVars, loaded, parsed, emitted>>

\* a caller overwrites the first byte of a slice it holds
ChangeSlice(slice) ==
    /\ Len(fs.log) < MaxFsCalls
    /\ slice \in fs.held
    /\ fs' = [fs EXCEPT !.sink.heap[slice][1] = 0,
                        !.log = Append(fs.log, FsCall("change", Nil, slice)),
                        !.query = Nil]
    /\ UNCHANGED <<validatorVars, buildVars, loaded, parsed, emitted>>

\* fs.GetFile(path): the caller keeps the slice returned
GetFileCall(path) ==
    /\ Len(fs.log) < MaxFsCalls
    /\ LET got == GetFile(fs.sink, path) IN
       fs' = [fs EXCEPT !.sink = got.fs,
                        !.held = IF got.exists THEN fs.held \cup {got.content}
                                 ELSE fs.held,
                        !.log = Append(fs.log, FsCall("GetFile", path, Nil)),
                        !.query = [op |-> "GetFile", path |-> path,
                                   exists |-> got.exists,
                                   answer |-> IF got.exists
                                              THEN got.fs.heap[got.content]
                                              ELSE Nil]]
    /\ UNCHANGED <<validatorVars, buildVars, loaded, parsed, emitted>>

\* fs.ListFiles()
ListFilesCall ==
    /\ fs' = [fs EXCEPT !.query = [op |-> "ListFiles", path |-> Nil,
                                   exists |-> TRUE,
                                   answer |-> ListFiles(fs.sink)]]
    /\ UNCHANGED <<validatorVars, buildVars, loaded, parsed, emitted>>

\* fs.DirExists(path)
DirExistsCall(path) ==
    /\ fs' = [fs EXCEPT !.query = [op |-> "DirExists", path |-> path,
                                   exists |-> DirExists(fs.sink, path),
                                   answer |-> Nil]]
    /\ UNCHANGED <<validatorVars, buildVars, loaded, parsed, emitted>>

NextFS ==
    \/ \E name \in FilePaths, content \in Contents(Len(fs.log) + 1) :
           WriteFileCall(name, content)
    \/ \E path \in DirPaths : MkdirAllCall(path)
    \/ \E slice \in 1..(3 * MaxFsCalls) : ChangeSlice(slice)
    \/ \E path \in FilePaths : GetFileCall(path)
    \/ ListFilesCall
    \/ \E path \in AskedDirs : DirExistsCall(path)

SpecFS == InitFS /\ [][NextFS]_vars

(***************************************************************************)
(* Parsing a module directory: ParseModuleToAST on a directory of .tg      *)
(* files, some of which do not parse.                                      *)
(***************************************************************************)
D_git == <<".", "g", "i", "t">>
D_sub == <<"s", "u", "b">>
F_txt == <<"c", ".", "t", "x", "t">>
\* what a .tg file can hold: a program; text the lexer rejects after part of
\* a tree was built; text the grammar rejects; text that yields no tree
SourceKinds ==
    {GoodSource(<<EmptyStructB>>),
     Source(1, 0, Program(<<>>, <<EmptyStructB>>)),
     Source(0, 1, Nil),
     Source(0, 0, Nil)}
\* a file of a directory: absent, unreadable, or holding one of the sources
FilesNamed(name) ==
    {<<>>, <<FileEntry(name, FALSE, Nil)>>}
    \cup {<<FileEntry(name, TRUE, source)>> : source \in SourceKinds}
\* the directories under a module directory: none, a skipped one with a file
\* that does not parse, or a submodule
SubDirectories ==
    {<<>>, <<DirEntry(D_git, TRUE, <<FileEntry(F_a, TRUE, Source(0, 1, Nil))>>)>>}
    \cup {<<DirEntry(D_sub, TRUE, files)>> :
            files \in {<<>>, <<FileEntry(F_txt, TRUE, Nil)>>}
                      \cup (FilesNamed(F_a) \ {<<>>})}
\* os.ReadDir lists a directory's entries sorted by name
ModuleDirectories ==
    {DirEntry(<<"m">>, TRUE, a \o b \o sub) :
        a \in FilesNamed(F_a), b \in FilesNamed(F_b), sub \in SubDirectories}
    \cup {DirEntry(<<"m">>, FALSE, <<>>)}

\* parser.ParseModuleToAST(modulePath)
ParseModuleCall ==
    /\ parsed.k = "directory"
    /\ parsed' = [k |-> "parsed", dir |-> parsed.dir,
                  result |-> ParseModuleToAST(parsed.dir)]
    /\ UNCHANGED <<validatorVars, buildVars, loaded, fs, emitted>>

InitParse ==
    /\ InitValidator /\ InitBuilder /\ loaded = Nil /\ fs = Nil /\ emitted = Nil
    /\ parsed \in {[k |-> "directory", dir |-> dir] : dir \in ModuleDirectories}

SpecParse == InitParse /\ [][ParseModuleCall]_vars

(***************************************************************************)
(* The generated codecs at work: a value of an enum is encoded by one      *)
(* backend's code, or a JSON text is decoded by it.                        *)
(***************************************************************************)
V_active == <<"a", "c", "t", "i", "v", "e">>
V_pending == <<"p", "e", "n", "d", "i", "n", "g">>
V_error == <<"e", "r", "r", "o", "r">>
N_Status == <<"S", "t", "a", "t", "u", "s">>
\* enums with no payload, with one on some variants, and with one on all
CodecEnums ==
    {EnumNode(N_Status, <<EnumVariantNode(V_active, Nil, NoPos),
                          EnumVariantNode(V_pending, Nil, NoPos)>>, NoPos),
     EnumNode(N_Status, <<EnumVariantNode(V_active, Nil, NoPos),
                          EnumVariantNode(V_pending, PrimitiveType(S_string), NoPos)>>,
              NoPos),
     EnumNode(N_Status, <<EnumVariantNode(V_active, PrimitiveType(S_string), NoPos),
                          EnumVariantNode(V_pending, PrimitiveType(S_string), NoPos)>>,
              NoPos)}
Payloads == {JString(<<"w">>), JString(<<>>)}
\* the values of an enum
ValuesOf(enum) ==
    UNION {IF enum.Variants[n].Payload = Nil
           THEN {EnumValue(enum.Variants[n].Name, Nil)}
           ELSE {EnumValue(enum.Variants[n].Name, p) : p \in Payloads}
             : n \in DOMAIN enum.Variants}
\* the JSON texts handed to a decoder: bare strings, and objects with or
\* without a type, a payload and another member
JsonTexts ==
    {JString(name) : name \in {V_active, V_pending}}
    \cup {JObject(("type" :> t) @@ rest) :
            t \in {JString(V_active), JString(V_pending), JString(V_error),
                   JObject("type" :> JString(V_active))},
            rest \in {"type" :> JString(V_active),
                      "payload" :> JString(<<"w">>),
                      "payload" :> JObject("type" :> JString(V_active)),
                      "value" :> JString(<<"w">>)}}
    \cup {JObject("payload" :> JString(<<"w">>)),
          JObject("value" :> JString(V_active))}
Backends == {"go", "pydantic"}

\* a value is encoded by the code a backend generated for its enum
EncodeCall(backend, enum, value) ==
    /\ emitted' = [op |-> "encode", backend |-> backend, enum |-> enum,
                   value |-> value,
                   json |-> IF backend = "go" THEN MarshalJSON(enum, value)
                            ELSE SerializeToJson(enum, value)]
    /\ UNCHANGED <<validatorVars, buildVars, loaded, fs, parsed>>

\* a JSON text is decoded by the code a backend generated for an enum
DecodeCall(backend, enum, json) ==
    /\ emitted' = [op |-> "decode", backend |-> backend, enum |-> enum,
                   json |-> json,
                   result |-> IF backend = "go" THEN UnmarshalJSON(enum, json)
                              ELSE ValidateFromJson(enum, json)]
    /\ UNCHANGED <<validatorVars, buildVars, loaded, fs, parsed>>

NextCodec ==
    \/ \E backend \in Backends, enum \in CodecEnums :
           \E value \in ValuesOf(enum) : EncodeCall(backend, enum, value)
    \/ \E backend \in Backends, enum \in CodecEnums, json \in JsonTexts :
           DecodeCall(backend, enum, json)

SpecCodec == Init /\ [][NextCodec]_vars

(***************************************************************************)
(* The Pydantic generator at work: it is handed a module and writes one    *)
(* Python file, first the declarations one by one, then the rebuilds.      *)
(***************************************************************************)
MaxEmitDecls == 2
N_X == <<"X">>
N_Y == <<"Y">>
N_Z == <<"Z">>
LocalNames == <<N_X, N_Y, N_Z>>
FieldTypePool ==
    {PrimitiveType(S_string), NamedType(N_B), NamedType(N_C),
     ArrayType(NamedType(N_X)), OptionalType(NamedType(N_B))}
    \cup {NamedType(LocalNames[i]) : i \in 1..MaxEmitDecls}
EmitDecls(name) ==
    {StructNode(name, <<FieldNode(N_x, t, FALSE, NoPos)>>, NoPos)
        : t \in FieldTypePool}
    \cup {StructNode(name, <<FieldNode(N_x, NamedType(N_B), FALSE, NoPos),
                             FieldNode(N_y, t, FALSE, NoPos)>>, NoPos)
            : t \in {NamedType(N_C),
                     MapType(PrimitiveType(S_string), NamedType(N_B))}}
    \cup {EnumNode(name, <<EnumVariantNode(N_x, p, NoPos),
                           EnumVariantNode(N_y, Nil, NoPos)>>, NoPos)
            : p \in {Nil, PrimitiveType(S_string), NamedType(N_C),
                     NamedType(LocalNames[1]),
                     NamedType(LocalNames[MaxEmitDecls])}}
    \cup {TypeAliasNode(name, t, NoPos)
            : t \in {PrimitiveType(S_string), NamedType(LocalNames[MaxEmitDecls])}}

\* the declarations of a.tg: one for each local name, in source order
RECURSIVE EmitDeclSeqs(_)
EmitDeclSeqs(n) ==
    IF n = 0 THEN {<<>>}
    ELSE {Append(s, d) : s \in EmitDeclSeqs(n - 1), d \in EmitDecls(LocalNames[n])}

\* the files next to a.tg
OtherFiles ==
    {(F_b :> Program(<<>>, <<EmptyStructB>>))
        @@ (F_c :> Program(<<>>, <<StructNode(N_C, <<>>, NoPos)>>)),
     F_b :> Program(<<>>, <<RefDecl("struct", N_B, NamedType(N_X)),
                            StructNode(N_C, <<>>, NoPos)>>),
     F_b :> Program(<<>>, <<EmptyStructB>>)}

EmitModules ==
    {Module((F_a :> Program(imps, decls)) @@ others, EmptyMap)
        : imps \in {<<>>, <<<<"c">>>>}, decls \in EmitDeclSeqs(MaxEmitDecls),
          others \in OtherFiles}

\* Generate is called: the imports of the file are computed
GenerateCall(m, file) ==
    /\ emitted = Nil
    /\ emitted' = [op |-> "generate", module |-> m, file |-> file,
                   imports |-> ImportLines(m, file),
                   out |-> <<>>, rebuilds |-> <<>>, phase |-> "declarations"]
    /\ UNCHANGED <<validatorVars, buildVars, loaded, fs, parsed>>

\* the next declaration is written
EmitNext ==
    /\ emitted # Nil
    /\ emitted.phase = "declarations"
    /\ LET program == emitted.module.Files[emitted.file]
           done == {emitted.out[k].index : k \in DOMAIN emitted.out} IN
       /\ Len(emitted.out) < Len(program.Declarations)
       /\ emitted' = [emitted EXCEPT !.out =
               Append(@, EmitDeclaration(program, NextToEmit(program, done), done))]
    /\ UNCHANGED <<validatorVars, buildVars, loaded, fs, parsed>>

\* every declaration is written: the rebuilds follow and the file is done
EmitRebuilds ==
    /\ emitted # Nil
    /\ emitted.phase = "declarations"
    /\ LET program == emitted.module.Files[emitted.file] IN
       /\ Len(emitted.out) = Len(program.Declarations)
       /\ emitted' = [emitted EXCEPT !.rebuilds = Rebuilds(program, 1),
                                     !.phase = "done"]
    /\ UNCHANGED <<validatorVars, buildVars, loaded, fs, parsed>>

NextEmit ==
    \/ /\ emitted = Nil
       /\ \E m \in EmitModules : \E file \in DOMAIN m.Files : GenerateCall(m, file)
    \/ EmitNext
    \/ EmitRebuilds

SpecEmit == Init /\ [][NextEmit]_vars

(***************************************************************************)
(* The registry with module paths in use: types are registered and         *)
(* qualified names are looked up.                                          *)
(***************************************************************************)
N_T == <<"T">>
N_U == <<"U">>
F_s_a == <<"s", "/", "a", ".", "t", "g">>
ModuleFiles == {F_a, F_b, F_s_a}
ModuleTypeNames == {N_T, N_U}
\* alias.Type, a name with a longer module path and a bare name
QualifiedNames ==
    {alias \o Dot \o t : alias \in {<<"a">>, <<"b">>, <<"x">>}, t \in ModuleTypeNames}
    \cup {<<"s", ".", "a", ".", "T">>, N_T}
ImportPaths == {<<"a">>, <<"b">>, <<"s", ".", "a">>, <<"p", ".", "a">>, <<"x">>}

InitResolver ==
    /\ registry = NewModuleTypeRegistry
    /\ result = NewValidationResult
    /\ input = Nil /\ first = Nil /\ lookup = Nil
    /\ InitBuilder /\ InitOthers

RegisterModuleTypeCall(name, file) ==
    /\ registry' = RegisterModuleType(registry, name, "struct", file, 1, 1)
    /\ lookup' = Nil
    /\ UNCHANGED <<result, input, first, buildVars, loaded, fs, parsed, emitted>>

QualifiedTypeExistsCall(qualifiedName, modulePath) ==
    /\ lookup' = [qualifiedName |-> qualifiedName, modulePath |-> modulePath,
                  exists |-> QualifiedTypeExists(registry, qualifiedName, modulePath)]
    /\ UNCHANGED <<registry, result, input, first, buildVars, loaded, fs, parsed, emitted>>

NextResolver ==
    \/ \E name \in ModuleTypeNames, file \in ModuleFiles :
          RegisterModuleTypeCall(name, file)
    \/ \E qualifiedName \in QualifiedNames, modulePath \in ImportPaths :
          QualifiedTypeExistsCall(qualifiedName, modulePath)

SpecResolver == InitResolver /\ [][NextResolver]_vars

(***************************************************************************)
(* The names of a module are asked for.                                    *)
(***************************************************************************)
D_t == <<"t">>
\* f restricted to the keys in S
Restrict(f, S) == [x \in S |-> f[x]]
NamedModules ==
    LET files == (F_a :> Program(<<>>, <<>>)) @@ (F_b :> Program(<<>>, <<>>))
                 @@ (F_c :> Program(<<>>, <<>>))
        subs == (N_sub :> Module(EmptyMap, EmptyMap))
                @@ (D_sub :> Module(EmptyMap, EmptyMap))
                @@ (D_t :> Module(EmptyMap, EmptyMap)) IN
    {Module(Restrict(files, F), Restrict(subs, S))
        : F \in SUBSET DOMAIN files, S \in SUBSET DOMAIN subs}

FileNamesCall(m) ==
    /\ \E names \in FileNames(m) :
          lookup' = [op |-> "FileNames", module |-> m, names |-> names]
    /\ UNCHANGED <<registry, result, input, first, buildVars, loaded, fs, parsed, emitted>>

SubModuleNamesCall(m) ==
    /\ \E names \in SubModuleNames(m) :
          lookup' = [op |-> "SubModuleNames", module |-> m, names |-> names]
    /\ UNCHANGED <<registry, result, input, first, buildVars, loaded, fs, parsed, emitted>>

NextNames ==
    \/ \E m \in NamedModules : FileNamesCall(m)
    \/ \E m \in NamedModules : SubModuleNamesCall(m)

SpecNames == Init /\ [][NextNames]_vars

(***************************************************************************)
(* Vocabulary of the properties: what a module contains, read off the      *)
(* tree itself.                                                            *)
(***************************************************************************)
\* the files of a module tree: [File |-> path, Program |-> program]
RECURSIVE AllFiles(_, _)
AllFiles(m, basePath) ==
    {[File |-> JoinPath(basePath, f), Program |-> m.Files[f]]
        : f \in DOMAIN m.Files}
    \cup UNION {AllFiles(m.SubModules[d], JoinPath(basePath, d))
                  : d \in DOMAIN m.SubModules}

\* the places of a file where a type expression stands
SitesOfDecl(d, file) ==
    CASE d.kind = "struct" ->
            {[File |-> file, Pos |-> d.Fields[j].Pos, Type |-> d.Fields[j].Type,
              Flagged |-> d.Fields[j].Optional] : j \in DOMAIN d.Fields}
      [] d.kind = "enum" ->
            {[File |-> file, Pos |-> d.Variants[j].Pos,
              Type |-> d.Variants[j].Payload, Flagged |-> FALSE]
               : j \in {i \in DOMAIN d.Variants : d.Variants[i].Payload # Nil}}
      [] d.kind = "alias" ->
            {[File |-> file, Pos |-> d.Pos, Type |-> d.Type, Flagged |-> FALSE]}
      [] OTHER -> {}
Sites(m) ==
    UNION {UNION {SitesOfDecl(f.Program.Declarations[i], f.File)
                    : i \in DOMAIN f.Program.Declarations}
             : f \in AllFiles(m, <<>>)}

\* every node of a type expression, outermost first
RECURSIVE Nodes(_)
Nodes(t) ==
    <<t>> \o (CASE t.k = "Array" -> Nodes(t.ElementType)
                [] t.k = "Optional" -> Nodes(t.ElementType)
                [] t.k = "Map" -> Nodes(t.KeyType) \o Nodes(t.ValueType)
                [] OTHER -> <<>>)

CountIn(seq, P(_)) == Cardinality({i \in DOMAIN seq : P(seq[i])})

\* the errors of one kind reported at one place
ErrorsAt(kind, site) ==
    CountIn(result.Errors,
            LAMBDA e : /\ e.Type = kind
                       /\ e.File = site.File
                       /\ e.Line = site.Pos.Line
                       /\ e.Column = site.Pos.Column)

DeclaredNames(m) ==
    UNION {{f.Program.Declarations[i].Name : i \in DOMAIN f.Program.Declarations}
             : f \in AllFiles(m, <<>>)}

HasErrorOfKind(kind) == \E i \in DOMAIN result.Errors : result.Errors[i].Type = kind

(***************************************************************************)
(* C1.  Reference cycles are legal: Validate never adds an error merely    *)
(* because a declaration refers to itself or declarations refer to each    *)
(* other; its errors are those of the walk of the tree and nothing else.   *)
(***************************************************************************)
C1_CyclesAreLegal ==
    input # Nil =>
        /\ ~HasErrorOfKind(CircularDependencyError)
        /\ (validateModule(registry, input, <<>>) = {<<>>} => result.Errors = <<>>)
(***************************************************************************)
(* C2.  Validate never stops at the first error.  Every file of every      *)
(* submodule contributes exactly the errors it yields when validated alone *)
(* against the same registry, every badly named submodule directory adds   *)
(* one NamingConventionError attributed to the path of its parent (which   *)
(* no file yields), the cycle check adds CircularDependencyErrors          *)
(* attributed to files of the tree, and nothing else is returned; no       *)
(* declaration, member or type expression loses an error to a violation    *)
(* found before it.                                                        *)
(***************************************************************************)
FileErrors(m) ==
    UNION {Range(validateProgram(registry, f.Program, f.File)) : f \in AllFiles(m, <<>>)}
WalkErrors == {e \in ErrorSet(result) : e.Type # CircularDependencyError}
RECURSIVE BadDirs(_, _)
BadDirs(m, basePath) ==
    {[Parent |-> basePath, Name |-> d] : d \in {x \in DOMAIN m.SubModules : ~IsValidSnakeCase(x)}}
    \cup UNION {BadDirs(m.SubModules[d], JoinPath(basePath, d)) : d \in DOMAIN m.SubModules}
IsDirError(e, dir) ==
    /\ e.Type = NamingConventionError
    /\ e.File = dir.Parent /\ e.Line = 0 /\ e.Column = 0
    /\ e.Message[2] = dir.Name

\* the original statement: the errors are the union of the files' errors
C2_UnionOfFileErrors ==
    input # Nil => WalkErrors = FileErrors(input)

C2_AllChecksRun ==
    input # Nil =>
        /\ \A f \in AllFiles(input, <<>>) :
              /\ Range(validateProgram(registry, f.Program, f.File)) \subseteq WalkErrors
              /\ CountIn(result.Errors,
                         LAMBDA e : e.Type # CircularDependencyError /\ e.File = f.File)
                    = Len(validateProgram(registry, f.Program, f.File))
              /\ \A i \in DOMAIN f.Program.Declarations :
                    Range(validateDeclaration(registry, f.Program.Declarations[i],
                                              f.File, EmptyMap)) \subseteq WalkErrors
        /\ \A site \in Sites(input) :
              Range(validateType(registry, site.Type, site.File,
                                 site.Pos.Line, site.Pos.Column)) \subseteq WalkErrors
        /\ \A dir \in BadDirs(input, <<>>) :
              CountIn(result.Errors, LAMBDA e : IsDirError(e, dir)) = 1
        /\ \A e \in WalkErrors \ FileErrors(input) :
              \E dir \in BadDirs(input, <<>>) : IsDirError(e, dir)
        /\ \A e \in ErrorSet(result) \ WalkErrors :
              \E f \in AllFiles(input, <<>>) : e.File = f.File

\* two badly named directories, one inside the other, each holding a file
\* with errors of its own: all of them and both directory errors returned
C2_Witness ==
    /\ input # Nil
    /\ Cardinality(BadDirs(input, <<>>)) = 2
    /\ \E f \in AllFiles(input, <<>>), g \in AllFiles(input, <<>>) :
          /\ f.File # g.File
          /\ Len(validateProgram(registry, f.Program, f.File)) >= 2
          /\ Len(validateProgram(registry, g.Program, g.File)) >= 1
          /\ \E dir \in BadDirs(input, <<>>) : HasPrefixAt(f.File, 1, dir.Name)
    /\ Cardinality(WalkErrors) >= 5
    /\ WalkErrors # FileErrors(input)

(***************************************************************************)
(* C3.  Duplicate declaration names are scoped per file: a file whose      *)
(* declarations use k distinct names among n declarations, of whatever     *)
(* kinds, gets exactly n - k DuplicateTypeErrors (one for two declarations *)
(* of one name), and a name shared with another file adds none.            *)
(***************************************************************************)
DuplicateTypeErrorsIn(file) ==
    CountIn(result.Errors,
            LAMBDA e : e.Type = DuplicateTypeError /\ e.File = file)
NamesOf(decls) == {decls[i].Name : i \in DOMAIN decls}

C3_DuplicatesPerFile ==
    input # Nil =>
        /\ \A f \in AllFiles(input, <<>>) :
              DuplicateTypeErrorsIn(f.File) =
                  Len(f.Program.Declarations)
                  - Cardinality(NamesOf(f.Program.Declarations))
        /\ CountIn(result.Errors, LAMBDA e : e.Type = DuplicateTypeError)
              = CountIn(result.Errors,
                        LAMBDA e : /\ e.Type = DuplicateTypeError
                                   /\ \E f \in AllFiles(input, <<>>) :
                                         e.File = f.File)

\* two declarations of different kinds and one name in a file, the same
\* name declared in the other file as well, and exactly one error
C3_Witness ==
    /\ input # Nil
    /\ \E f \in AllFiles(input, <<>>), g \in AllFiles(input, <<>>) :
          /\ f.File # g.File
          /\ Len(f.Program.Declarations) = 2
          /\ f.Program.Declarations[1].Name = f.Program.Declarations[2].Name
          /\ f.Program.Declarations[1].kind # f.Program.Declarations[2].kind
          /\ f.Program.Declarations[1].Name \in NamesOf(g.Program.Declarations)
    /\ CountIn(result.Errors, LAMBDA e : e.Type = DuplicateTypeError) = 1

(***************************************************************************)
(* C4.  Duplicate members: in every struct (enum) each field (variant)     *)
(* whose name was used by an earlier member of the same struct (enum)      *)
(* gets exactly one DuplicateFieldError (DuplicateVariantError), which     *)
(* names the line of the first member of that name; no other such error    *)
(* exists, so n members of one name give n - 1 errors and the same name    *)
(* in two different structs or enums gives none.                           *)
(***************************************************************************)
FirstUse(members, j) ==
    CHOOSE i \in 1..j : /\ members[i].Name = members[j].Name
                        /\ \A h \in 1..(i - 1) : members[h].Name # members[j].Name
\* <<file, line, column, name, line of the first use>> of every repeat
ExpectedRepeats(members, file) ==
    {<<file, members[j].Pos.Line, members[j].Pos.Column, members[j].Name,
       members[FirstUse(members, j)].Pos.Line>>
        : j \in {h \in DOMAIN members : FirstUse(members, h) # h}}
MembersOf(d, kind) ==
    IF d.kind # kind THEN <<>>
    ELSE IF kind = "struct" THEN d.Fields ELSE d.Variants
ExpectedRepeatsIn(m, kind) ==
    UNION {UNION {ExpectedRepeats(MembersOf(f.Program.Declarations[i], kind), f.File)
                    : i \in DOMAIN f.Program.Declarations}
             : f \in AllFiles(m, <<>>)}
ReportedRepeats(type) ==
    {<<e.File, e.Line, e.Column, e.Message[2], e.Message[3]>>
        : e \in {x \in ErrorSet(result) : x.Type = type}}

C4_DuplicateMembers ==
    input # Nil =>
        /\ ReportedRepeats(DuplicateFieldError) = ExpectedRepeatsIn(input, "struct")
        /\ ReportedRepeats(DuplicateVariantError) = ExpectedRepeatsIn(input, "enum")
        /\ CountIn(result.Errors, LAMBDA e : e.Type = DuplicateFieldError)
              = Cardinality(ExpectedRepeatsIn(input, "struct"))
        /\ CountIn(result.Errors, LAMBDA e : e.Type = DuplicateVariantError)
              = Cardinality(ExpectedRepeatsIn(input, "enum"))

\* a struct with three fields of one name: two errors, both naming the line
\* of the first, while another struct uses the name as well
C4_Witness ==
    /\ input # Nil
    /\ \E f \in AllFiles(input, <<>>) :
          \E i, h \in DOMAIN f.Program.Declarations :
             LET d == f.Program.Declarations[i]
                 o == f.Program.Declarations[h] IN
             /\ i # h /\ d.kind = "struct" /\ o.kind = "struct"
             /\ Len(d.Fields) = 3 /\ Len(o.Fields) >= 1
             /\ \A j \in 1..3 : d.Fields[j].Name = o.Fields[1].Name
             /\ ReportedRepeats(DuplicateFieldError) =
                   {<<f.File, d.Fields[j].Pos.Line, d.Fields[j].Pos.Column,
                      d.Fields[j].Name, d.Fields[1].Pos.Line>> : j \in 2..3}

(***************************************************************************)
(* C5.  Map key legality: at every place a type expression stands, the     *)
(* number of InvalidMapKeyErrors is the number of map types in it (at any  *)
(* nesting) whose key is not one of string, int8..int64, nat8..nat64; a    *)
(* map whose key is one of these gets none.                                *)
(***************************************************************************)
LegalMapKeys ==
    {S_string, S_int8, S_int16, S_int32, S_int64, S_nat8, S_nat16, S_nat32, S_nat64}
IllegalKeyMap(t) ==
    /\ t.k = "Map"
    /\ ~(t.KeyType.k = "Primitive" /\ t.KeyType.Name \in LegalMapKeys)

DoublyOptional(site) ==
    \/ \E i \in DOMAIN Nodes(site.Type) :
          /\ Nodes(site.Type)[i].k = "Optional"
          /\ Nodes(site.Type)[i].ElementType.k = "Optional"
    \/ site.Flagged /\ site.Type.k = "Optional"

BuiltIns ==
    {S_int8, S_int16, S_int32, S_int64, S_nat8, S_nat16, S_nat32, S_nat64,
     S_float32, S_float64, S_string, S_bool, S_json,
     S_time, S_date, S_datetime, S_timetz, S_datetz, S_datetimetz}
UnknownPrimitive(t) == t.k = "Primitive" /\ t.Name \notin BuiltIns

C7_PrimitivesAccepted ==
    input # Nil =>
        \A site \in Sites(input) :
            ErrorsAt(InvalidPrimitiveError, site)
                = CountIn(Nodes(site.Type), UnknownPrimitive)

(***************************************************************************)
(* C8.  Flat namespace: a Named reference to X resolves exactly when X is  *)
(* a recognized primitive name or a declaration named X exists in any file *)
(* of the module tree, whatever the file imports; every reference that     *)
(* does not resolve gets exactly one UndefinedTypeError, and one that      *)
(* resolves gets none.                                                     *)
(***************************************************************************)
Resolves(name, m) == name \in ValidPrimitiveTypes \/ name \in DeclaredNames(m)

C8_FlatNamespace ==
    input # Nil =>
        \A site \in Sites(input) :
            /\ ErrorsAt(UndefinedTypeError, site)
                  = CountIn(Nodes(site.Type),
                            LAMBDA t : t.k = "Named" /\ ~Resolves(t.Name, input))
            /\ \A i \in DOMAIN Nodes(site.Type) :
                  Nodes(site.Type)[i].k = "Named" =>
                     (TypeExists(registry, Nodes(site.Type)[i].Name, site.File)
                        <=> Resolves(Nodes(site.Type)[i].Name, input))

\* a file that imports nothing refers to a declaration of another file and
\* to a name declared nowhere: no error for the first, one for the second
C8_Witness ==
    /\ input # Nil
    /\ \E f \in AllFiles(input, <<>>), g \in AllFiles(input, <<>>) :
          /\ f.File # g.File
          /\ f.Program.Imports = <<>>
          /\ \E s1 \in SitesOfDecl(f.Program.Declarations[1], f.File),
                s2 \in SitesOfDecl(g.Program.Declarations[1], g.File) :
                /\ s1.Type.k = "Named"
                /\ s1.Type.Name \in NamesOf(g.Program.Declarations)
                /\ s1.Type.Name \notin NamesOf(f.Program.Declarations)
                /\ ErrorsAt(UndefinedTypeError, s1) = 0
                /\ s2.Type.k = "Named"
                /\ s2.Type.Name \notin DeclaredNames(input)
                /\ ErrorsAt(UndefinedTypeError, s2) = 1

(***************************************************************************)
(* C9.  FindType resolves like TypeExists but for the primitive step,      *)
(* which it does not have: for a name that is no recognized primitive it   *)
(* reports found exactly when TypeExists is true; for a recognized         *)
(* primitive name TypeExists is true whatever is registered, and FindType  *)
(* reports found only if a declaration of that name is registered; a       *)
(* record found bears the name asked for, and when currentFile::name is    *)
(* registered the record is that file's, not another file's.               *)
(***************************************************************************)
RegisteredAs(name) == {q \in DOMAIN registry : registry[q].Name = name}

\* the original statement: found exactly when TypeExists is true
C9_FoundIffExists ==
    lookup # Nil =>
        /\ (lookup.found # Nil) <=> lookup.exists
        /\ qualifyName(lookup.name, lookup.currentFile) \in DOMAIN registry =>
              lookup.found = registry[qualifyName(lookup.name, lookup.currentFile)]

C9_FindTypeOrder ==
    lookup # Nil =>
        /\ (lookup.found # Nil) <=> RegisteredAs(lookup.name) # {}
        /\ lookup.name \notin ValidPrimitiveTypes =>
              ((lookup.found # Nil) <=> lookup.exists)
        /\ lookup.name \in ValidPrimitiveTypes => lookup.exists
        /\ lookup.found # Nil =>
              /\ lookup.found.Name = lookup.name
              /\ \E q \in RegisteredAs(lookup.name) : registry[q] = lookup.found
        /\ (\E q \in RegisteredAs(lookup.name) :
                registry[q].File = lookup.currentFile) =>
              lookup.found.File = lookup.currentFile

\* a name registered in two files as different kinds is asked for from the
\* second file, and that file's record has come back
C9_Witness ==
    /\ lookup # Nil
    /\ lookup.name \notin ValidPrimitiveTypes
    /\ lookup.currentFile = F_b
    /\ \E q, r \in RegisteredAs(lookup.name) :
          /\ registry[q].File = F_a /\ registry[r].File = F_b
          /\ registry[q].DeclType # registry[r].DeclType
          /\ lookup.found = registry[r]
    /\ lookup.exists

(***************************************************************************)
(* C10.  Validate is idempotent: validating a module that was validated    *)
(* before, on the same validator or on a fresh one, with or without        *)
(* validations of other modules in between, returns the same set of        *)
(* errors as the first time.                                               *)
(***************************************************************************)
C10_ValidateIdempotent ==
    (first # Nil /\ input = first.module) => ErrorSet(result) = first.errors

(***************************************************************************)
(* C11.  Every error of a result carries a precise location and a fix: its *)
(* File is the path of a file of the validated tree, its Line and Column   *)
(* are both at least 1, and its Suggestion is not empty -- for every kind  *)
(* of error, the directory naming errors and the cycle errors included.    *)
(***************************************************************************)
HasSuggestion(e) ==
    /\ e.Suggestion # <<>>
    /\ e.Suggestion[1] # ""
IsPrecise(e, m) ==
    /\ \E f \in AllFiles(m, <<>>) : e.File = f.File
    /\ e.Line >= 1
    /\ e.Column >= 1

C11_PreciseLocations ==
    input # Nil =>
        \A e \in ErrorSet(result) : IsPrecise(e, input) /\ HasSuggestion(e)

(***************************************************************************)
(* C12.  Naming conventions: every struct, enum or alias whose name is not *)
(* UpperCamelCase, every field, variant or submodule directory whose name  *)
(* is not lower_snake_case and every constant whose name is not            *)
(* UPPER_SNAKE_CASE gets exactly one NamingConventionError, whose          *)
(* suggestion is the computed rewrite of the name (struct user_info is     *)
(* told UserInfo, field UserName is told user_name); a conforming name     *)
(* gets none, and there is no other NamingConventionError.                 *)
(***************************************************************************)
UpperCamel(s) ==
    /\ s # <<>> /\ s[1] \in Upper
    /\ \A i \in 2..Len(s) : s[i] # "_" /\ s[i] \in Upper \cup Lower \cup Digit
LowerSnake(s) ==
    /\ s # <<>> /\ s[1] \in Lower
    /\ \A i \in 2..Len(s) : s[i] \notin Upper
UpperSnake(s) ==
    /\ s # <<>> /\ s[1] \in Upper
    /\ \A i \in 2..Len(s) : s[i] \notin Lower
Conforms(convention, s) ==
    CASE convention = "UpperCamelCase" -> UpperCamel(s)
      [] convention = "lower_snake_case" -> LowerSnake(s)
      [] convention = "UPPER_SNAKE_CASE" -> UpperSnake(s)
\* every named thing of a tree: where it stands, its name and the
\* convention its name is held to
Named(file, pos, name, convention) ==
    [File |-> file, Line |-> pos.Line, Column |-> pos.Column, Name |-> name,
     Convention |-> convention]
MembersIn(d) == MembersOf(d, "struct") \o MembersOf(d, "enum")
NamedOfDecl(d, file) ==
    {Named(file, d.Pos, d.Name,
           IF d.kind = "constant" THEN "UPPER_SNAKE_CASE" ELSE "UpperCamelCase")}
    \cup {Named(file, MembersIn(d)[j].Pos, MembersIn(d)[j].Name, "lower_snake_case")
            : j \in DOMAIN MembersIn(d)}
RECURSIVE NamedDirs(_, _)
NamedDirs(m, basePath) ==
    {Named(basePath, NoPos, d, "lower_snake_case") : d \in DOMAIN m.SubModules}
    \cup UNION {NamedDirs(m.SubModules[d], JoinPath(basePath, d)) : d \in DOMAIN m.SubModules}
NamedThings(m) ==
    NamedDirs(m, <<>>)
    \cup UNION {UNION {NamedOfDecl(f.Program.Declarations[i], f.File)
                         : i \in DOMAIN f.Program.Declarations}
                  : f \in AllFiles(m, <<>>)}
NamingErrorsOf(n) ==
    {i \in DOMAIN result.Errors :
        /\ result.Errors[i].Type = NamingConventionError
        /\ result.Errors[i].File = n.File
        /\ result.Errors[i].Line = n.Line
        /\ result.Errors[i].Column = n.Column
        /\ result.Errors[i].Message[2] = n.Name}
Rewrite(n) ==
    CASE n.Convention = "UpperCamelCase" -> SuggestPascalCase(n.Name)
      [] n.Convention = "lower_snake_case" -> SuggestSnakeCase(n.Name)
      [] n.Convention = "UPPER_SNAKE_CASE" -> SuggestConstantCase(n.Name)
\* the rewrites the conventions call for, name by name
RewriteExamples ==
    {<<"UpperCamelCase", N_user_info, N_UserInfo>>,
     <<"UpperCamelCase", N_USER_NAME, N_UserName>>,
     <<"lower_snake_case", N_UserName, N_user_name>>,
     <<"lower_snake_case", N_userName, N_user_name>>,
     <<"UPPER_SNAKE_CASE", N_UserName, N_USER_NAME>>,
     <<"UPPER_SNAKE_CASE", N_userName, N_USER_NAME>>}

C12_NamingConventions ==
    input # Nil =>
        /\ \A n \in NamedThings(input) :
              /\ Cardinality(NamingErrorsOf(n))
                    = IF Conforms(n.Convention, n.Name) THEN 0 ELSE 1
              /\ \A i \in NamingErrorsOf(n) :
                    /\ result.Errors[i].Suggestion = <<"use", Rewrite(n)>>
                    /\ \A x \in RewriteExamples :
                          (x[1] = n.Convention /\ x[2] = n.Name) =>
                             result.Errors[i].Suggestion[2] = x[3]
        /\ CountIn(result.Errors, LAMBDA e : e.Type = NamingConventionError)
              = Cardinality({n \in NamedThings(input) : ~Conforms(n.Convention, n.Name)})

\* struct user_info with a field UserName: one error for each, the first
\* suggesting UserInfo and the second user_name
C12_Witness ==
    /\ input # Nil
    /\ \E n \in NamedThings(input), k \in NamedThings(input) :
          /\ n.Name = N_user_info /\ n.Convention = "UpperCamelCase"
          /\ k.Name = N_UserName /\ k.Convention = "lower_snake_case"
          /\ k.File = n.File /\ k.Line = n.Line + 1
          /\ \E i \in NamingErrorsOf(n), j \in NamingErrorsOf(k) :
                /\ result.Errors[i].Suggestion = <<"use", N_UserInfo>>
                /\ result.Errors[j].Suggestion = <<"use", N_user_name>>
                /\ NamingErrorsOf(n) = {i} /\ NamingErrorsOf(k) = {j}

(***************************************************************************)
(* C13.  Build, given a configuration, attempts every task exactly once    *)
(* and in configuration order whether or not earlier tasks failed (unknown *)
(* generator, parse failure, validation failure, generation error), and    *)
(* it does return; it returns an error exactly when at least one task      *)
(* failed, and the collected task errors and the successes add up to the   *)
(* number of tasks.                                                        *)
(***************************************************************************)
FailedTasks == {building.buildErrors[j].task : j \in DOMAIN building.buildErrors}
GeneratedTasks ==
    {building.events[j].at.task + 1 :
        j \in {h \in DOMAIN building.events : building.events[h].op = "generate"}}
BuildAccounting ==
    (building # Nil /\ builder.config # Nil) =>
        LET tasks == builder.config.Generate IN
        /\ building.i <= Len(tasks)
        /\ building.attempted = [k \in 1..building.i |-> k - 1]
        /\ Len(building.buildErrors) + building.successCount = building.i
        /\ Cardinality(FailedTasks) = Len(building.buildErrors)
        /\ FailedTasks \subseteq 1..building.i
        /\ \A k \in 1..building.i :
              /\ (tasks[k].Generator = G_unknown \/ tasks[k].Input = P_broken)
                    => k \in FailedTasks
              /\ k \notin FailedTasks => k \in GeneratedTasks
        /\ building.returned =>
              /\ building.i = Len(tasks)
              /\ building.err # Nil <=> FailedTasks # {}

C13_EveryTaskAttempted ==
    /\ []BuildAccounting
    /\ <>(building # Nil /\ building.returned)

\* three tasks: the first names an unknown generator, the second reads an
\* input that does not parse, the third succeeds; Build has returned an error
C13_Witness ==
    /\ building # Nil /\ building.returned /\ builder.config # Nil
    /\ Len(builder.config.Generate) = 3
    /\ builder.config.Generate[1].Generator = G_unknown
    /\ builder.config.Generate[2].Input = P_broken
    /\ builder.config.Generate[2].Generator = G_go
    /\ FailedTasks = {1, 2}
    /\ building.successCount = 1
    /\ building.attempted = <<0, 1, 2>>
    /\ building.err # Nil


(***************************************************************************)
(* C14                                                                     *)
(***************************************************************************)
\* the keys of a configuration map
Keys(config) == DOMAIN config

\* C14: MergedConfig(i) of a Config with n tasks is, for 0 <= i < n, a map
\* whose keys are the keys of the global configuration and of task i's
\* configuration, each with the task's value when the task has the key and
\* the global value otherwise; for any other i it is nil; and the Config is
\* after the call what it was before it.
C14_MergedConfig ==
    loaded.k = "merged" =>
        LET c == loaded.before
            i == loaded.taskIndex IN
        /\ loaded.result.value = c
        /\ IF i >= 0 /\ i < Len(c.Generate)
           THEN LET task == c.Generate[i + 1].Config IN
                /\ loaded.merged # Nil
                /\ Keys(loaded.merged) = Keys(c.Config) \cup Keys(task)
                /\ \A key \in Keys(loaded.merged) :
                       loaded.merged[key] = IF key \in Keys(task) THEN task[key]
                                            ELSE c.Config[key]
           ELSE loaded.merged = Nil

\* a merge in which the task overrides one global key and inherits another
C14_Witness ==
    /\ loaded.k = "merged"
    /\ loaded.taskIndex = 1
    /\ Len(loaded.before.Generate) = 2
    /\ loaded.before.Config = ("module-name" :> <<"g">>) @@ ("timeout" :> <<"g">>)
    /\ loaded.before.Generate[2].Config = ("module-name" :> <<"t">>)
    /\ loaded.merged = ("module-name" :> <<"t">>) @@ ("timeout" :> <<"g">>)

(***************************************************************************)
(* C15                                                                     *)
(***************************************************************************)
\* the document in the configuration file a call of LoadConfig names, Nil
\* when there is no such file or it is not a YAML document
DocumentOf(call) ==
    LET path == IF call.configPath = <<>> THEN ConfigFileName ELSE call.configPath
        at == IF path[1] = "/" THEN path ELSE call.wd \o Slash \o path IN
    IF at \in DOMAIN call.disk /\ call.disk[at].k = "file"
    THEN call.disk[at].doc ELSE Nil
\* the directory a task's input names for a process working in wd
InputDirectory(wd, task) ==
    IF task.Input = <<>> \/ task.Input = <<".">> THEN wd
    ELSE IF task.Input[1] = "/" THEN task.Input
    ELSE wd \o Slash \o task.Input
IsDirectoryOn(disk, path) == path \in DOMAIN disk /\ disk[path].k = "dir"
\* what LoadConfig requires of a document
Acceptable(call, doc) ==
    /\ doc # Nil
    /\ doc.Version \in {0, 1}
    /\ Len(doc.Generate) >= 1
    /\ \A n \in DOMAIN doc.Generate :
           /\ doc.Generate[n].Generator # <<>>
           /\ doc.Generate[n].Output # <<>>
           /\ IsDirectoryOn(call.disk, InputDirectory(call.wd, doc.Generate[n]))

ConfigDirectory(call) ==
    LET path == IF call.configPath = <<>> THEN ConfigFileName ELSE call.configPath
        at == IF path[1] = "/" THEN path ELSE call.wd \o Slash \o path IN
    SubSeq(at, 1, Len(at) - Len(ConfigFileName) - 1)
\* a path of a document resolved from a directory
ResolvedFrom(dir, path) ==
    IF path = <<".">> THEN dir
    ELSE IF path[1] = "/" THEN path
    ELSE dir \o Slash \o path

\* C16: in the Config LoadConfig returns, a relative input or output of a
\* task is the path resolved from the directory of the configuration file,
\* and an absolute one is the path of the document.
C16_RelativeToConfigFile ==
    (loaded.k \in {"loaded", "merged"} /\ loaded.result.err = Nil) =>
        LET doc == DocumentOf(loaded)
            config == loaded.result.value IN
        \A n \in DOMAIN doc.Generate :
            /\ doc.Generate[n].Input # <<>> =>
                   config.Generate[n].Input
                       = ResolvedFrom(ConfigDirectory(loaded), doc.Generate[n].Input)
            /\ config.Generate[n].Output
                   = ResolvedFrom(ConfigDirectory(loaded), doc.Generate[n].Output)

(***************************************************************************)
(* C17                                                                     *)
(***************************************************************************)
\* the names registered so far, and the constructor of a name's latest
\* registration
NamesRegistered == {calls.registered[i][1] : i \in DOMAIN calls.registered}
LatestRegistration(name) ==
    LET last == CHOOSE i \in DOMAIN calls.registered :
                    /\ calls.registered[i][1] = name
                    /\ \A j \in DOMAIN calls.registered :
                           calls.registered[j][1] = name => j <= i IN
    calls.registered[last][2]
\* a comes strictly before b in byte order
Precedes(a, b) ==
    \E n \in 0..Len(a) :
        /\ n <= Len(b)
        /\ \A k \in 1..n : a[k] = b[k]
        /\ \/ n = Len(a) /\ n < Len(b)
           \/ n < Len(a) /\ n < Len(b)
              /\ IndexIn(Bytes, a[n + 1]) < IndexIn(Bytes, b[n + 1])

\* C17: after any sequence of Register calls, List returns the registered
\* names, each once, in ascending order; Get of a registered name returns,
\* without an error, a generator built by the constructor of the name's
\* latest registration; Get of any other name returns an error and no
\* generator.
C17_RegistryIsAMap ==
    calls.query # Nil =>
        LET q == calls.query IN
        IF q.op = "List"
        THEN /\ Range(q.answer) = NamesRegistered
             /\ Len(q.answer) = Cardinality(NamesRegistered)
             /\ \A n \in 1..(Len(q.answer) - 1) :
                    Precedes(q.answer[n], q.answer[n + 1])
        ELSE IF q.name \in NamesRegistered
             THEN /\ q.answer.err = Nil
                  /\ q.answer.value # Nil
                  /\ q.answer.value.builtBy = LatestRegistration(q.name).id
             ELSE /\ q.answer.err # Nil
                  /\ q.answer.value = Nil

\* a name registered twice, with another name in between, then asked for
C17_Witness ==
    /\ calls.registered = <<<<G_go, Constructor(1, FALSE)>>,
                            <<G_Go, Constructor(1, FALSE)>>,
                            <<G_go, Constructor(2, FALSE)>>>>
    /\ calls.query # Nil
    /\ calls.query.op = "Get"
    /\ calls.query.name = G_go
    /\ calls.query.answer.value.builtBy = 2

(***************************************************************************)
(* C18                                                                     *)
(***************************************************************************)
\* the paths written and the paths created so far
WrittenPaths ==
    {fs.log[n].path : n \in {m \in DOMAIN fs.log : fs.log[m].op = "WriteFile"}}
CreatedPaths ==
    {fs.log[n].path : n \in {m \in DOMAIN fs.log : fs.log[m].op = "MkdirAll"}}
\* the elements of a path, and its proper prefixes: a/b/f has a and a/b
Elements(path) == Split(path, Slash)
ProperPrefixes(path) ==
    {Join(SubSeq(Elements(path), 1, n), Slash) : n \in 1..(Len(Elements(path)) - 1)}
\* ListFiles answers the written paths, each once, ascending
ListsWrittenPaths ==
    (fs.query # Nil /\ fs.query.op = "ListFiles") =>
        /\ Range(fs.query.answer) = WrittenPaths
        /\ Len(fs.query.answer) = Cardinality(WrittenPaths)
        /\ \A n \in 1..(Len(fs.query.answer) - 1) :
               Precedes(fs.query.answer[n], fs.query.answer[n + 1])

\* C18: after any sequence of WriteFile and MkdirAll calls,
\* DirExists is true of every proper prefix of every written path and of
\* every created path, and ListFiles returns the written paths ascending.
C18_AncestorsExist ==
    /\ (fs.query # Nil /\ fs.query.op = "DirExists"
        /\ \E path \in WrittenPaths \cup CreatedPaths :
               fs.query.path \in ProperPrefixes(path))
           => fs.query.exists
    /\ ListsWrittenPaths


(***************************************************************************)
(* C19                                                                     *)
(***************************************************************************)
\* the bytes the latest WriteFile of a path was called with, as they were
\* at the call
LatestWrite(path) ==
    LET last == CHOOSE n \in DOMAIN fs.log :
                    /\ fs.log[n].op = "WriteFile" /\ fs.log[n].path = path
                    /\ \A m \in DOMAIN fs.log :
                           (fs.log[m].op = "WriteFile" /\ fs.log[m].path = path)
                               => m <= n IN
    fs.log[last].data

\* C19: GetFile of a written path returns the bytes its latest WriteFile was
\* called with, whatever the callers have done since to the slices they
\* passed to WriteFile or got from GetFile; GetFile of a path never written
\* reports that the file does not exist.
C19_GetFileIsolated ==
    (fs.query # Nil /\ fs.query.op = "GetFile") =>
        IF fs.query.path \in WrittenPaths
        THEN fs.query.exists /\ fs.query.answer = LatestWrite(fs.query.path)
        ELSE ~fs.query.exists

\* f written twice, the slice of the second write changed afterwards, and f
\* read: the bytes are those of the second write
C19_Witness ==
    /\ Len(fs.log) = 4
    /\ \A n \in {1, 2} :
           /\ fs.log[n].op = "WriteFile"
           /\ fs.log[n].path = P_f
           /\ fs.log[n].data = <<n>>
    /\ fs.log[3].op = "change"
    /\ fs.log[3].data = 3
    /\ fs.sink.heap[3] = <<0>>
    /\ fs.query # Nil
    /\ fs.query.op = "GetFile"
    /\ fs.query.path = P_f
    /\ fs.query.answer = <<2>>

(***************************************************************************)
(* C20                                                                     *)
(***************************************************************************)
\* a file that parses: it can be opened and yields a whole tree
ParsesAlone(entry) ==
    /\ entry.Readable
    /\ entry.Source.Errors = 0 /\ entry.Source.Status = 0
    /\ entry.Source.Node # Nil
\* the .tg files of a directory
TgFiles(entries) ==
    {n \in DOMAIN entries : ~entries[n].IsDir /\ HasSuffix(entries[n].Name, DotTg)}
\* the module holds exactly the .tg files of the directory that parse, each
\* with its whole tree
HoldsTheFilesThatParse(m, entries) ==
    /\ m # Nil
    /\ DOMAIN m.Files
           = {entries[n].Name : n \in {k \in TgFiles(entries) : ParsesAlone(entries[k])}}
    /\ \A n \in TgFiles(entries) :
           ParsesAlone(entries[n]) => m.Files[entries[n].Name] = entries[n].Source.Node

\* C20: ParseModuleToAST of a readable directory returns a module that
\* holds every .tg file that parses and no file that fails, in the directory
\* and in its submodule, whichever other files fail.
C20_ContinuesOnFileFailures ==
    (parsed.k = "parsed" /\ parsed.dir.Readable) =>
        LET m == parsed.result.value
            entries == parsed.dir.Entries IN
        /\ HoldsTheFilesThatParse(m, entries)
        /\ \A n \in DOMAIN entries :
               (/\ entries[n].IsDir /\ entries[n].Name = D_sub
                /\ \E k \in TgFiles(entries[n].Entries) :
                       ParsesAlone(entries[n].Entries[k]))
                   => /\ D_sub \in DOMAIN m.SubModules
                      /\ HoldsTheFilesThatParse(m.SubModules[D_sub],
                                                entries[n].Entries)

(***************************************************************************)
(* C21                                                                     *)
(***************************************************************************)
\* the variants of an enum that carry a payload, by name
CarriesPayload(enum, name) ==
    \E n \in DOMAIN enum.Variants :
        enum.Variants[n].Name = name /\ enum.Variants[n].Payload # Nil
HasVariant(enum, name) ==
    \E n \in DOMAIN enum.Variants : enum.Variants[n].Name = name
\* json is the object of a value of the enum: a "type" naming a variant, a
\* "payload" exactly when the variant carries one, and nothing else
IsTaggedShape(enum, json) ==
    /\ json.j = "object"
    /\ "type" \in DOMAIN json.members
    /\ json.members["type"].j = "string"
    /\ HasVariant(enum, json.members["type"].s)
    /\ DOMAIN json.members
           = IF CarriesPayload(enum, json.members["type"].s)
             THEN {"type", "payload"} ELSE {"type"}
    /\ "payload" \in DOMAIN json.members => json.members["payload"].j = "string"

NamesUsedBy(d) ==
    {n.Name : n \in {t \in UNION {Range(Nodes(s.Type)) : s \in SitesOfDecl(d, <<>>)}
                        : t.k = "Named"}}
NamesUsedIn(program) ==
    UNION {NamesUsedBy(program.Declarations[i]) : i \in DOMAIN program.Declarations}
TypesOf(program) ==
    {d.Name : d \in {e \in Range(program.Declarations) : e.kind # "constant"}}
GeneratedProgram == emitted.module.Files[emitted.file]
OtherSourceFiles == DOMAIN emitted.module.Files \ {emitted.file}
\* the import lines of the generated file that import a name, from any file
LinesImporting(n) ==
    {i \in DOMAIN emitted.imports :
        \E g \in DOMAIN emitted.module.Files : emitted.imports[i] = ImportLine(g, n)}
\* the import lines of the generated file that import from a file
LinesFrom(g) ==
    {i \in DOMAIN emitted.imports :
        \E n \in NamesUsedIn(GeneratedProgram) \cup DeclaredNames(emitted.module) :
            emitted.imports[i] = ImportLine(g, n)}

(***************************************************************************)
(* C22.  The imports of a generated file come from the types its           *)
(* declarations reference, not from the import statements of the source:   *)
(* a referenced type that another file defines is imported exactly once,   *)
(* from a file that defines it; a type the file defines itself is never    *)
(* imported; nothing is imported from a file none of whose types the file  *)
(* references; and the import lines are in ascending order.                *)
(***************************************************************************)
C22_ImportsFromReferences ==
    emitted # Nil =>
        LET used == NamesUsedIn(GeneratedProgram)
            own == TypesOf(GeneratedProgram)
            elsewhere == UNION {TypesOf(emitted.module.Files[g]) : g \in OtherSourceFiles}
            lines == emitted.imports IN
        /\ \A n \in used \cup own \cup elsewhere :
              Cardinality(LinesImporting(n)) =
                  IF n \in used /\ n \notin own /\ n \in elsewhere THEN 1 ELSE 0
        /\ \A i \in DOMAIN lines :
              \E g \in OtherSourceFiles :
                 \E n \in TypesOf(emitted.module.Files[g]) : lines[i] = ImportLine(g, n)
        /\ LinesFrom(emitted.file) = {}
        /\ \A g \in OtherSourceFiles :
              used \cap TypesOf(emitted.module.Files[g]) = {} => LinesFrom(g) = {}
        /\ \A i \in 1..(Len(lines) - 1) : StringLess(lines[i], lines[i + 1])

\* a.tg has no import statement, refers to a type of its own and to types
\* of b.tg and c.tg: it imports the two, b before c
C22_Witness ==
    /\ emitted # Nil
    /\ emitted.file = F_a
    /\ GeneratedProgram.Imports = <<>>
    /\ NamesUsedIn(GeneratedProgram) \cap TypesOf(GeneratedProgram) # {}
    /\ emitted.imports = <<ImportLine(F_b, N_B), ImportLine(F_c, N_C)>>
    /\ emitted.phase = "done"

\* a declaration of the generated file depends on another one
DependsOn(a, b) ==
    \E d \in Range(GeneratedProgram.Declarations) :
        d.Name = a /\ b \in NamesUsedBy(d) /\ b \in TypesOf(GeneratedProgram)
\* a declaration lies on a cycle: a path of dependencies leads from it back
\* to it
OnCycle(n) ==
    \E len \in 1..Len(GeneratedProgram.Declarations) :
        \E p \in [1..(len + 1) -> TypesOf(GeneratedProgram)] :
            /\ p[1] = n /\ p[len + 1] = n
            /\ \A i \in 1..len : DependsOn(p[i], p[i + 1])
\* the declaration is among the first k written
EmittedWithin(n, k) == \E j \in 1..k : emitted.out[j].Name = n
\* the models a cycle of the file passes through
ModelsOnCycles ==
    {d.Name : d \in {e \in Range(GeneratedProgram.Declarations)
                        : e.kind = "struct" /\ OnCycle(e.Name)}}
    \cup UNION {{VariantClassName(d.Name, v.Name)
                    : v \in {w \in Range(d.Variants) : w.Payload # Nil}}
                  : d \in {e \in Range(GeneratedProgram.Declarations)
                              : e.kind = "enum" /\ OnCycle(e.Name)}}

(***************************************************************************)
(* C23.  Cycle-aware emission.  A declaration on no cycle is written       *)
(* after the declarations of the file it depends on and all its            *)
(* references are plain; a reference is a forward reference exactly when   *)
(* it names a declaration of a cycle that is not written yet; the rebuilds *)
(* come after the last declaration and are one model_rebuild() for each    *)
(* model on a cycle (a self-referencing struct and the payload-carrying    *)
(* variants of an enum included), none for a file without cycles.          *)
(***************************************************************************)
C23_CycleAwareEmission ==
    emitted # Nil =>
        LET out == emitted.out
            decls == GeneratedProgram.Declarations IN
        /\ \A k \in DOMAIN out :
              /\ out[k].plain \cup out[k].forward = NamesUsedBy(decls[out[k].index])
              /\ out[k].plain \cap out[k].forward = {}
              /\ ~OnCycle(out[k].Name) =>
                    /\ out[k].forward = {}
                    /\ \A b \in TypesOf(GeneratedProgram) :
                          DependsOn(out[k].Name, b) => EmittedWithin(b, k - 1)
              /\ \A r \in NamesUsedBy(decls[out[k].index]) :
                    r \in out[k].forward <=>
                        /\ r \in TypesOf(GeneratedProgram)
                        /\ OnCycle(r)
                        /\ ~EmittedWithin(r, k - 1)
        /\ emitted.rebuilds # <<>> => Len(out) = Len(decls)
        /\ emitted.phase = "done" =>
              /\ Len(out) = Len(decls)
              /\ Range(emitted.rebuilds) = ModelsOnCycles
              /\ Len(emitted.rebuilds) = Cardinality(ModelsOnCycles)
              /\ (\A n \in TypesOf(GeneratedProgram) : ~OnCycle(n))
                    => emitted.rebuilds = <<>>

\* enum X { x: Y, y } and struct Y { x: X }: X is written with a forward
\* reference to Y, Y with a plain reference to X, and the variant model and
\* the struct are rebuilt
C23_Witness ==
    /\ emitted # Nil
    /\ emitted.phase = "done"
    /\ Len(emitted.out) = 2
    /\ emitted.out[1].Name = N_X /\ emitted.out[1].kind = "enum"
    /\ emitted.out[1].forward = {N_Y}
    /\ emitted.out[2].Name = N_Y /\ emitted.out[2].plain = {N_X}
    /\ emitted.rebuilds = <<VariantClassName(N_X, N_x), N_Y>>

(***************************************************************************)
(* Vocabulary of the dependency graph: the declarations of a module tree   *)
(* and the references between them, read off the tree itself.              *)
(***************************************************************************)
\* the declaration a file holds under a name: the last one of that name
DeclNamed(f, name) ==
    LET decls == f.Program.Declarations
        last == CHOOSE i \in DOMAIN decls :
                    /\ decls[i].Name = name
                    /\ \A j \in DOMAIN decls : decls[j].Name = name => j <= i IN
    decls[last]
\* the declarations of the tree: [File |-> path, Name |-> name]
GraphNodes(m) ==
    UNION {{[File |-> f.File, Name |-> f.Program.Declarations[i].Name]
               : i \in DOMAIN f.Program.Declarations} : f \in AllFiles(m, <<>>)}
\* a name used in a file denotes the declaration of that file if there is
\* one, any declaration of that name in the tree otherwise
Denotes(m, name, file) ==
    IF [File |-> file, Name |-> name] \in GraphNodes(m)
    THEN {[File |-> file, Name |-> name]}
    ELSE {n \in GraphNodes(m) : n.Name = name}
\* the declaration u names the declaration v
GraphEdge(m, u, v) ==
    \E f \in AllFiles(m, <<>>) :
        /\ f.File = u.File
        /\ v.Name \in NamesUsedBy(DeclNamed(f, u.Name))
        /\ v \in Denotes(m, v.Name, u.File)
RECURSIVE GraphReached(_, _, _)
GraphReached(m, frontier, seen) ==
    LET next == {v \in GraphNodes(m) : \E u \in frontier : GraphEdge(m, u, v)}
                \ seen IN
    IF next = {} THEN seen ELSE GraphReached(m, next, seen \cup next)
GraphHasCycle(m) == \E u \in GraphNodes(m) : u \in GraphReached(m, {u}, {})
\* the same with every name taken to denote a declaration of the file that
\* uses it
FileGraphHasCycle(m) ==
    \E f \in AllFiles(m, <<>>) :
        GraphHasCycle(Module(f.File :> f.Program, EmptyMap))

(***************************************************************************)
(* C24.  The cycle check reports at least one cycle exactly when the       *)
(* dependency graph of the tree has a cycle, a name denoting its           *)
(* declaration wherever in the tree it stands: a mutual reference between  *)
(* declarations of two files is found as one inside a file is.             *)
(***************************************************************************)
C24_CyclesDetected ==
    input # Nil =>
        (HasErrorOfKind(CircularDependencyError) <=> GraphHasCycle(input))

\* the cycles of the latest validation, each as its sequence of qualified
\* names
ReportedCycles ==
    {Split(e.Message[2], Arrow)
        : e \in {x \in ErrorSet(result) : x.Type = CircularDependencyError}}
\* the registry holds `from` and `from` has a dependency that, qualified
\* with the file of `from`, is `to`
RegisteredEdge(from, to) ==
    /\ from \in DOMAIN registry
    /\ \E i \in DOMAIN registry[from].Dependencies :
          registry[from].File \o ColonColon \o registry[from].Dependencies[i] = to

(***************************************************************************)
(* C25.  A reported cycle is a cycle of the registry, given as a path: it  *)
(* ends with the node it starts with, each node has the next one among its *)
(* dependencies, and no node but the first stands in it twice.  The marks  *)
(* a reported cycle leaves on the recursion stack never make a path that   *)
(* does not hold the repeated node a cycle.                                *)
(***************************************************************************)
C25_GenuineCycles ==
    \A c \in ReportedCycles :
        /\ Len(c) >= 2
        /\ c[1] = c[Len(c)]
        /\ \A i \in 1..(Len(c) - 1) : RegisteredEdge(c[i], c[i + 1])
        /\ \A i, j \in 1..(Len(c) - 1) : c[i] = c[j] => i = j

\* struct A { x: A } and B { x: A } in a.tg: the cycle of A is reported and
\* leaves A marked; B, which leads to the marked A, is not reported
C25_Witness ==
    /\ input # Nil
    /\ RegisteredEdge(qualifyName(N_A, F_a), qualifyName(N_A, F_a))
    /\ RegisteredEdge(qualifyName(N_B, F_a), qualifyName(N_A, F_a))
    /\ ~RegisteredEdge(qualifyName(N_B, F_a), qualifyName(N_B, F_a))
    /\ ReportedCycles = {<<qualifyName(N_A, F_a), qualifyName(N_A, F_a)>>}

\* the type expressions of a declaration, in source order
TypeExprs(d) ==
    CASE d.kind = "struct" -> [i \in DOMAIN d.Fields |-> d.Fields[i].Type]
      [] d.kind = "enum" ->
            LET carrying == SelectSeq(d.Variants, LAMBDA v : v.Payload # Nil) IN
            [i \in DOMAIN carrying |-> carrying[i].Payload]
      [] d.kind = "alias" -> <<d.Type>>
      [] OTHER -> <<>>
\* the names at the Named leaves of a type expression, left to right
LeafNamesOf(t) ==
    LET named == SelectSeq(Nodes(t), LAMBDA n : n.k = "Named") IN
    [i \in DOMAIN named |-> named[i].Name]
RECURSIVE LeafNames(_)
LeafNames(types) ==
    IF types = <<>> THEN <<>>
    ELSE LeafNamesOf(Head(types)) \o LeafNames(Tail(types))

ParsesAndValidates(path) ==
    LET got == ParseModuleToAST(ReadDisk(path)) IN
    IF got.err # Nil THEN FALSE
    ELSE \A r \in ValidateRuns(got.value) : r.errors = <<>>

(***************************************************************************)
(* C27.  Generate is called for a task only when the module of its input   *)
(* has parsed and its validation has found no error, also when an earlier  *)
(* task of the build had the same input: a module that failed validation   *)
(* for the first task fails every later task that reads the same input.    *)
(***************************************************************************)
C27_GenerateOnlyValidated ==
    (building # Nil /\ builder.config # Nil) =>
        \A k \in GeneratedTasks :
            ParsesAndValidates(builder.config.Generate[k].Input)

\* the events of one kind that the build has had at an input path
EventsAt(op, path) ==
    {j \in DOMAIN building.events :
        building.events[j].op = op /\ building.events[j].at = path}
InputPaths == {builder.config.Generate[k].Input : k \in DOMAIN builder.config.Generate}
\* so far every input path that parses was parsed at most once and every
\* path was validated at most once, and a task that got as far as Generate
\* got the module of the one parse of its input, which is the cached one
ParsedAndValidatedOnce ==
    (building # Nil /\ builder.config # Nil) =>
        /\ \A p \in InputPaths :
              /\ ParseModuleToAST(ReadDisk(p)).err = Nil
                    => Cardinality(EventsAt("parse", p)) <= 1
              /\ Cardinality(EventsAt("validate", p)) <= 1
              /\ p \in DOMAIN builder.moduleCache
                    <=> (EventsAt("parse", p) # {}
                         /\ ParseModuleToAST(ReadDisk(p)).err = Nil)
              /\ p \in DOMAIN builder.validationCache
                    <=> EventsAt("validate", p) # {}
        /\ \A k \in GeneratedTasks :
              LET p == builder.config.Generate[k].Input IN
              /\ Cardinality(EventsAt("parse", p)) = 1
              /\ p \in DOMAIN builder.moduleCache
              /\ builder.moduleCache[p] = ParseModuleToAST(ReadDisk(p)).value
\* a step of the build keeps every entry of the two caches as it is
CachesKeep ==
    (builder # Nil /\ builder' # Nil) =>
        /\ \A p \in DOMAIN builder.moduleCache :
              /\ p \in DOMAIN builder'.moduleCache
              /\ builder'.moduleCache[p] = builder.moduleCache[p]
        /\ \A p \in DOMAIN builder.validationCache :
              /\ p \in DOMAIN builder'.validationCache
              /\ builder'.validationCache[p] = builder.validationCache[p]

(***************************************************************************)
(* C28.  Within one Build the module cache and the validation cache only   *)
(* grow: no entry is removed or replaced.  Hence each input path is parsed *)
(* successfully at most once and validated at most once, and all the tasks *)
(* of one input path are handed the module of that one parse.              *)
(***************************************************************************)
C28_CachesAppendOnly ==
    /\ []ParsedAndValidatedOnce
    /\ [][CachesKeep]_vars

\* three tasks read the same good input, all three have generated: one
\* parse, one validation
C28_Witness ==
    /\ building # Nil /\ builder.config # Nil /\ building.returned
    /\ Len(builder.config.Generate) = 3
    /\ \A k \in 1..3 : builder.config.Generate[k].Input = P_good
    /\ GeneratedTasks = {1, 2, 3}
    /\ Cardinality(EventsAt("parse", P_good)) = 1
    /\ Cardinality(EventsAt("validate", P_good)) = 1
    /\ DOMAIN builder.moduleCache = {P_good}

\* the file belongs to the module an import path or an alias denotes: its
\* module path is the import path or the alias, or ends with one of them
BelongsTo(file, importPath, alias) ==
    LET modulePath == fileToModulePath(file) IN
    \/ modulePath = importPath
    \/ modulePath = alias
    \/ HasSuffix(modulePath, Dot \o alias)
    \/ HasSuffix(modulePath, Dot \o importPath)

(***************************************************************************)
(* C29.  QualifiedTypeExists("alias.Type", importPath) is true only if a   *)
(* type named Type is registered in a file of the module that importPath   *)
(* or alias denotes: it is false when types named Type are registered in   *)
(* unrelated modules only, and when none is registered.                    *)
(***************************************************************************)
C29_QualifiedOnlyInModule ==
    (lookup # Nil /\ Len(Split(lookup.qualifiedName, Dot)) = 2) =>
        LET alias == Split(lookup.qualifiedName, Dot)[1]
            type == Split(lookup.qualifiedName, Dot)[2] IN
        lookup.exists =>
            \E key \in DOMAIN registry.types :
                /\ registry.types[key].Name = type
                /\ BelongsTo(registry.types[key].File, lookup.modulePath, alias)

(***************************************************************************)
(* C30.  FileNames and SubModuleNames return the names of the files (of    *)
(* the submodules) of the module as a sorted list: every name once, in     *)
(* ascending order, hence the same list on every call.                     *)
(***************************************************************************)
C30_SortedNames ==
    lookup # Nil =>
        /\ Range(lookup.names) =
              (IF lookup.op = "FileNames" THEN DOMAIN lookup.module.Files
               ELSE DOMAIN lookup.module.SubModules)
        /\ \A i \in 1..(Len(lookup.names) - 1) :
              StringLess(lookup.names[i], lookup.names[i + 1])

=============================================================================
